---- MODULE Spec2Model ----
(***************************************************************************)
(* A model of axilent: the Future/Command model of comms.py, the           *)
(* DictCommandHandler and NamedPipeHandler of handlers.py and the          *)
(* CocotbHandler channel processors of cocotb_handler.py.                  *)
(***************************************************************************)
EXTENDS Integers, Sequences, FiniteSets, TLC

VARIABLES
    \* ---- comms.py exercised directly (SpecComms) ----
    command,          \* the Command object under test (with its Future)
    read_responses,   \* deque of AxiResponse handed to process_responses
    write_responses,  \* deque of AxiResponse handed to process_responses
    call,             \* the last operation applied and what it returned / raised
    \* ---- cocotb_handler.py (SpecCocotb) ----
    handler,          \* the CocotbHandler: its five queues, the Events, what was ever appended
    signals,          \* valid and payload of AW, W, AR as driven in the channel's last cycle
    proc,             \* each channel processor: the value it holds, whether it still runs
    turn,             \* whose step of the current clock cycle is next (processors run in lock-step)
    calls,            \* the write() / read() / send() coroutines started so far
    last,             \* what the channel processor that ran last drove and sampled in its cycle
                      \* (the ready a B / R processor drives is recorded here)
    wire,             \* per channel, the payloads / handles seen transferred, in order
    throttle,         \* per channel, the throttle given to start(), in percent
    peer,             \* the peer: "lawful" (answers accepted requests only), "coded" (lawful,
                      \* with any response code), "adder" (lawful, the adder slave) or "free"
    rng,              \* random_seed and, for two runs of that configuration, the generators
                      \* the processors draw from and the decisions drawn (SpecStreams)
    \* ---- handlers.py, DictCommandHandler (SpecDict) ----
    dict_handler,     \* the DictCommandHandler: unsent_commands, sent_commands
    ads,              \* the master-to-slave dicts the last make_command_dicts returned
    dict_call,        \* the last operation on the DictCommandHandler and what it raised
    \* ---- handlers.py, NamedPipeHandler (SpecPipe) ----
    pipe_handler,     \* the NamedPipeHandler: sent_commands, the unsent deques, the response deques
    comm,             \* the locals of communicate() that live across cycles, the cycle, what it raised
    pipe_commands,    \* the Command objects sent, as the caller holds them, with what each consumed
    dut               \* the simulated slave: requests accepted and responses given so far

comms_vars == <<command, read_responses, write_responses, call>>
cocotb_vars == <<handler, signals, proc, turn, calls, last, wire, throttle, peer>>
dict_vars == <<dict_handler, ads, dict_call>>
pipe_vars == <<pipe_handler, comm, pipe_commands, dut>>
vars == <<comms_vars, cocotb_vars, dict_vars, pipe_vars, rng>>

\* What the actions of one part leave alone.
not_comms == <<cocotb_vars, dict_vars, pipe_vars, rng>>
not_cocotb == <<comms_vars, dict_vars, pipe_vars, rng>>
not_dict == <<comms_vars, cocotb_vars, pipe_vars, rng>>
not_pipe == <<comms_vars, cocotb_vars, dict_vars, rng>>

-----------------------------------------------------------------------------
(* Bounds of the model.                                                    *)

\* Largest number of AxiResponse objects in the two FIFOs together.
MaxResponses == 3
\* Largest AxiCommand length drawn.
MaxLength == 2
\* Largest number of write() / read() / send() calls started on a CocotbHandler.
MaxCalls == 2
\* Largest number of beats (completion handles) submitted to a CocotbHandler.
MaxBeats == 3
\* The same two bounds with a peer that answers at any time.
FreeCalls == 1
FreeBeats == 2
\* The same two bounds where the cycles are followed for ever.
LiveCalls == 1
LiveBeats == 2
\* The same two bounds with the adder slave as the peer.
AdderCalls == 2
AdderBeats == 3
\* Largest number of commands sent to a DictCommandHandler.
MaxSent == 2
\* Largest number of process_responses calls counted on one command.
MaxProcessed == 2
\* max_cycles of the NamedPipeHandler: communicate stops after this cycle.
MaxCycles == 4
\* Largest number of throttle draws followed in one run.
MaxDraws == 3
\* Largest number of cycle maps handed to axi_dicts_to_axi_responses directly.
MaxMaps == 2

-----------------------------------------------------------------------------
(* comms.py: constants and value encodings.                                *)

OKAY == 0
EXOKAY == 1
SLVERR == 2
DECERR == 3

READ_TYPE == "READ"
WRITE_TYPE == "WRITE"

\* Python's None where an integer may stand (AXI data are unsigned).
None == -1

\* Future states.
UNRESOLVED == "unresolved"
OKAY_STATE == "okay"
ERROR_STATE == "error"

\* Exceptions, by what they say.  NoException is Python's e = None.
NoException == "None"
RanOut == "Ran out of responses"
LengthMismatch == "Response lengths not matching command lengths"
BadResponse == "Bad response"
WrongNumber == "Wrong number of results"
NotBoolean == "Return value must be 0 to 1 for boolean"
Unresolved == "Future is unresolved"
AssertionError == "AssertionError"
IndexError == "IndexError"

\* Results are boxed so that lists, integers and None compare.
NoneV == [k |-> "none", v |-> <<>>]
ListV(s) == [k |-> "list", v |-> s]
IntV(i) == IF i = None THEN NoneV ELSE [k |-> "int", v |-> <<i>>]
BoolV(b) == [k |-> "bool", v |-> <<IF b THEN 1 ELSE 0>>]

AxiResponse(length, data, resp) == [length |-> length, data |-> data, resp |-> resp]

-----------------------------------------------------------------------------
(* comms.py: Future.                                                       *)

Future == [state |-> UNRESOLVED, result_value |-> NoneV, exception_value |-> NoException]

\* A set_result that forgets the assertion (used to test the claims).
set_result_unguarded(f, result) ==
    [fut |-> [f EXCEPT !.result_value = result, !.state = OKAY_STATE], raised |-> NoException]

set_result(f, result) ==
    IF f.state = UNRESOLVED
    THEN [fut |-> [f EXCEPT !.result_value = result, !.state = OKAY_STATE],
          raised |-> NoException]
    ELSE [fut |-> f, raised |-> AssertionError]

set_exception(f, exception) ==
    IF f.state = UNRESOLVED
    THEN [fut |-> [f EXCEPT !.exception_value = exception, !.state = ERROR_STATE],
          raised |-> NoException]
    ELSE [fut |-> f, raised |-> AssertionError]

\* result(): what it returns, or what it raises.
result(f) ==
    IF f.state = ERROR_STATE THEN [raised |-> f.exception_value, value |-> NoneV]
    ELSE IF f.state = UNRESOLVED THEN [raised |-> Unresolved, value |-> NoneV]
    ELSE [raised |-> NoException, value |-> f.result_value]

\* A resolve_future that stores the result whatever e is (used to test the
\* claims).
resolve_future_result_only(cmd, e, r) ==
    LET s == set_result(cmd.future, r)
    IN [cmd |-> [cmd EXCEPT !.future = s.fut], raised |-> s.raised]

\* Command.resolve_future(e, result) on the command object cmd.
resolve_future(cmd, e, r) ==
    LET s == IF e # NoException THEN set_exception(cmd.future, e)
             ELSE set_result(cmd.future, r)
    IN [cmd |-> [cmd EXCEPT !.future = s.fut], raised |-> s.raised]

-----------------------------------------------------------------------------
(* comms.py: the Command classes.                                          *)

\* AxiCommand.__init__ (the attributes it stores; cls names the subclass
\* whose process_responses applies).
AxiCommand(cls, start_address, length, readorwrite, data, constant_address, address_by_word) ==
    [cls |-> cls, start_address |-> start_address, length |-> length,
     readorwrite |-> readorwrite, data |-> data,
     constant_address |-> constant_address, address_by_word |-> address_by_word,
     future |-> Future]

\* WORD_SIZE = 4
WORD_SIZE == 4

\* An address check that lets everything pass (used to test the claims).
FitsUnchecked(start_address, n) == TRUE

\* start_address + n <= max_address, max_address = pow(2, 32) - 1.  An
\* address is written in two halves of 16 bits, hi * 2^16 + lo, and
\* max_address is (2^16 - 1) * 2^16 + (2^16 - 1).
Fits(start_address, n) ==
    start_address.hi + ((start_address.lo + n) \div 65536) <= 65535

\* AxiCommand.__init__ with its assertions: the exception raised and the
\* object built.  data is NoneV or ListV(list), description NoneV or ListV(the
\* characters of the str).
AxiCommand_init(start_address, length, readorwrite, data, constant_address, description, address_by_word) ==
    LET raised ==
            IF readorwrite \notin {READ_TYPE, WRITE_TYPE} THEN AssertionError
            ELSE IF readorwrite = READ_TYPE /\ data # NoneV THEN AssertionError
            ELSE IF readorwrite = WRITE_TYPE /\ data = NoneV THEN "TypeError"
            ELSE IF readorwrite = WRITE_TYPE /\ Len(data.v) # length THEN AssertionError
            ELSE IF ~Fits(start_address, 0) THEN AssertionError
            ELSE IF ~constant_address /\ address_by_word
                    /\ ~Fits(start_address, length - 1) THEN AssertionError
            ELSE IF ~constant_address /\ ~address_by_word
                    /\ ~Fits(start_address, (length - 1) * WORD_SIZE) THEN AssertionError
            ELSE IF description = NoneV \/ description.v = <<>> THEN AssertionError
            ELSE NoException
    IN [raised |-> raised,
        self |-> IF raised # NoException THEN [cls |-> "none"]
                 ELSE AxiCommand("AxiCommand", start_address, length, readorwrite, data,
                                 constant_address, address_by_word)]

SetUnsignedsCommand(values, address, constant_address, address_by_word) ==
    AxiCommand("AxiCommand", address, Len(values), WRITE_TYPE, values,
               constant_address, address_by_word)

SetUnsignedCommand(value, address) == SetUnsignedsCommand(<<value>>, address, TRUE, TRUE)

GetUnsignedsCommand(address, length, constant_address) ==
    AxiCommand("AxiCommand", address, length, READ_TYPE, <<>>, constant_address, TRUE)

GetUnsignedCommand(address) ==
    AxiCommand("GetUnsignedCommand", address, 1, READ_TYPE, <<>>, TRUE, TRUE)

GetBooleanCommand(address) ==
    AxiCommand("GetBooleanCommand", address, 1, READ_TYPE, <<>>, TRUE, TRUE)

FakeWaitCommand(clock_cycles) ==
    [cls |-> "FakeWaitCommand", clock_cycles |-> clock_cycles, length |-> 1]

CombinedCommand(commands) ==
    [cls |-> "CombinedCommand", commands |-> commands, future |-> Future]

\* examples/axi_adder.py: write intA, write intB, read intC.
AddNumbersCommand(a, b, addresses) ==
    [cls |-> "AddNumbersCommand",
     commands |-> <<SetUnsignedCommand(a, addresses[1]),
                    SetUnsignedCommand(b, addresses[2]),
                    GetUnsignedCommand(addresses[3])>>,
     future |-> Future]

IsCombined(cmd) == cmd.cls \in {"CombinedCommand", "AddNumbersCommand"}
IsFakeWait(cmd) == cmd.cls = "FakeWaitCommand"

\* get_axi_commands: the flat list of AxiCommand / FakeWaitCommand objects.
RECURSIVE get_axi_commands(_)
RECURSIVE get_axi_commands_of(_, _)
get_axi_commands_of(commands, i) ==
    IF i > Len(commands) THEN <<>>
    ELSE get_axi_commands(commands[i]) \o get_axi_commands_of(commands, i + 1)
get_axi_commands(cmd) ==
    IF IsCombined(cmd) THEN get_axi_commands_of(cmd.commands, 1) ELSE <<cmd>>

-----------------------------------------------------------------------------
(* comms.py: process_responses.                                            *)

\* What a process_responses call leaves behind: the command object (its
\* Future), the two FIFOs, the returned (e, r), and the exception that
\* escaped the call, if any.
PR(cmd, rd, wr, e, r, raised) ==
    [cmd |-> cmd, read |-> rd, write |-> wr, e |-> e, r |-> r, raised |-> raised]

\* A pop from the right end (used to test the claims).
pop(q) == [item |-> q[Len(q)], rest |-> SubSeq(q, 1, Len(q) - 1)]

\* relevant_responses.popleft()
popleft(q) == [item |-> Head(q), rest |-> Tail(q)]

\* A trim that leaves the data as they are (used to test the claims).
NoTrim(data, length) == data

\* data = data[:self.length]
Trim(data, length) == SubSeq(data, 1, IF Len(data) < length THEN Len(data) ELSE length)

\* The while loop of AxiCommand.process_responses (comms.py 152-165).
RECURSIVE Consume(_, _, _, _, _)
Consume(length, relevant_responses, data, total_response_length, e) ==
    IF total_response_length < length
    THEN IF relevant_responses = <<>>
         THEN [responses |-> relevant_responses, data |-> data, e |-> RanOut]
         ELSE LET p == popleft(relevant_responses)
                  response == p.item
                  total == total_response_length + response.length
                  e2 == IF total > length THEN LengthMismatch
                        ELSE IF response.resp # OKAY THEN BadResponse
                        ELSE e
              IN Consume(length, p.rest, data \o response.data, total, e2)
    ELSE [responses |-> relevant_responses, data |-> data, e |-> e]

\* After the body computed (e, r): resolve the Future when asked to.
Finish(cmd, rd, wr, e, r, resolve) ==
    IF resolve
    THEN LET rf == resolve_future(cmd, e, r)
         IN PR(rf.cmd, rd, wr, e, r, rf.raised)
    ELSE PR(cmd, rd, wr, e, r, NoException)

AxiCommand_process_responses(cmd, rd, wr, resolve) ==
    LET isread == cmd.readorwrite = READ_TYPE
        c == Consume(cmd.length, IF isread THEN rd ELSE wr, <<>>, 0, NoException)
        rd2 == IF isread THEN c.responses ELSE rd
        wr2 == IF isread THEN wr ELSE c.responses
        data == Trim(c.data, cmd.length)
    IN IF Len(data) # cmd.length
       THEN PR(cmd, rd2, wr2, c.e, NoneV, AssertionError)
       ELSE Finish(cmd, rd2, wr2, c.e, ListV(data), resolve)

GetUnsignedCommand_process_responses(cmd, rd, wr, resolve) ==
    LET s == AxiCommand_process_responses(cmd, rd, wr, FALSE)
    IN IF s.raised # NoException THEN s
       ELSE IF Len(s.r.v) # 1 THEN PR(cmd, s.read, s.write, s.e, NoneV, AssertionError)
       ELSE Finish(cmd, s.read, s.write, s.e, IntV(s.r.v[1]), resolve)

GetBooleanCommand_process_responses(cmd, rd, wr, resolve) ==
    LET s == AxiCommand_process_responses(cmd, rd, wr, FALSE)
        bad == s.e = NoException /\ Len(s.r.v) # 1
        first_result == s.r.v[1]
        e == IF s.e # NoException THEN s.e
             ELSE IF bad THEN WrongNumber
             ELSE IF first_result \in {0, 1} THEN NoException
             ELSE NotBoolean
        r == IF s.e = NoException /\ ~bad /\ first_result \in {0, 1}
             THEN BoolV(first_result = 1) ELSE NoneV
    IN IF s.raised # NoException THEN s
       ELSE Finish(cmd, s.read, s.write, e, r, resolve)

\* A first_e that keeps the last error seen (used to test the claims).
LastError(first_e, e) == IF e # NoException THEN e ELSE first_e

\* comms.py 373-374: first_e is set by the first error only.
FirstError(first_e, e) == IF e # NoException /\ first_e = NoException THEN e ELSE first_e

RECURSIVE process_responses(_, _, _, _)
\* The for loop of CombinedCommand.process_responses (comms.py 370-375):
\* rd, wr are the responses left before sub-command i, first_e the first
\* exception seen and results the sub-commands' results so far.
RECURSIVE CombinedLoop(_, _, _, _, _, _)
CombinedLoop(commands, i, rd, wr, first_e, results) ==
    IF i > Len(commands)
    THEN [commands |-> commands, read |-> rd, write |-> wr, first_e |-> first_e,
          results |-> results, raised |-> NoException]
    ELSE LET s == process_responses(commands[i], rd, wr, ~IsFakeWait(commands[i]))
             commands2 == [commands EXCEPT ![i] = s.cmd]
         IN IF s.raised # NoException
            THEN [commands |-> commands2, read |-> s.read, write |-> s.write,
                  first_e |-> first_e, results |-> results, raised |-> s.raised]
            ELSE CombinedLoop(commands2, i + 1, s.read, s.write,
                              FirstError(first_e, s.e),
                              Append(results, s.r))

CombinedCommand_process_responses(cmd, rd, wr, resolve) ==
    LET l == CombinedLoop(cmd.commands, 1, rd, wr, NoException, <<>>)
        cmd2 == [cmd EXCEPT !.commands = l.commands]
    IN IF l.raised # NoException
       THEN PR(cmd2, l.read, l.write, l.first_e, NoneV, l.raised)
       ELSE IF resolve
       THEN LET rf == resolve_future(cmd2, l.first_e, NoneV)
            IN PR(rf.cmd, l.read, l.write, l.first_e,
                  [k |-> "results", v |-> l.results], rf.raised)
       ELSE PR(cmd2, l.read, l.write, l.first_e,
               [k |-> "results", v |-> l.results], NoException)

\* examples/axi_adder.py 85-94.
AddNumbersCommand_process_responses(cmd, rd, wr, resolve) ==
    LET s == CombinedCommand_process_responses(cmd, rd, wr, FALSE)
    IN IF s.raised # NoException THEN s
       ELSE Finish(s.cmd, s.read, s.write, s.e, s.r.v[3], resolve)

process_responses(cmd, rd, wr, resolve) ==
    CASE cmd.cls = "AxiCommand" -> AxiCommand_process_responses(cmd, rd, wr, resolve)
      [] cmd.cls = "GetUnsignedCommand" -> GetUnsignedCommand_process_responses(cmd, rd, wr, resolve)
      [] cmd.cls = "GetBooleanCommand" -> GetBooleanCommand_process_responses(cmd, rd, wr, resolve)
      [] cmd.cls = "CombinedCommand" -> CombinedCommand_process_responses(cmd, rd, wr, resolve)
      [] cmd.cls = "AddNumbersCommand" -> AddNumbersCommand_process_responses(cmd, rd, wr, resolve)
      [] cmd.cls = "FakeWaitCommand" -> PR(cmd, rd, wr, NoException, NoneV, NoException)

-----------------------------------------------------------------------------
(* SpecComms: comms.py driven directly.  A command and two response FIFOs  *)
(* are drawn, then process_responses is applied, with and without          *)
(* resolve_future, as often as the caller likes.                           *)

\* Data values on the bus (2 is not a boolean).
Data == {0, 1, 2}

\* The responses drawn: single-beat ones, a two-beat one and an empty one.
ResponseSet ==
    {AxiResponse(1, <<d>>, OKAY) : d \in Data}
    \cup {AxiResponse(1, <<0>>, SLVERR), AxiResponse(1, <<1>>, EXOKAY),
          AxiResponse(2, <<0, 1>>, OKAY), AxiResponse(0, <<>>, OKAY)}

RECURSIVE SeqsUpTo(_, _)
SeqsUpTo(S, n) ==
    IF n = 0 THEN {<<>>}
    ELSE LET shorter == SeqsUpTo(S, n - 1)
         IN shorter \cup {Append(q, x) : q \in {t \in shorter : Len(t) = n - 1}, x \in S}

WriteData(n) == [i \in 1..n |-> i]

CommandSet ==
    {GetUnsignedsCommand(0, n, FALSE) : n \in 0..MaxLength}
    \cup {SetUnsignedsCommand(WriteData(n), 0, FALSE, TRUE) : n \in 0..MaxLength}
    \cup {GetUnsignedCommand(0), GetBooleanCommand(0),
          CombinedCommand(<<SetUnsignedCommand(1, 0), GetUnsignedsCommand(0, 1, FALSE)>>),
          CombinedCommand(<<GetUnsignedsCommand(0, 1, FALSE), FakeWaitCommand(1),
                            GetUnsignedCommand(0)>>),
          AddNumbersCommand(1, 2, <<0, 1, 2>>)}

NoCall ==
    [op |-> "none", resolve |-> FALSE, before |-> Future, read |-> <<>>, write |-> <<>>,
     e |-> NoException, r |-> NoneV, raised |-> NoException]

\* command.process_responses(read_responses, write_responses, resolve_future)
ProcessResponses(resolve) ==
    LET s == process_responses(command, read_responses, write_responses, resolve)
    IN /\ command' = s.cmd
       /\ read_responses' = s.read
       /\ write_responses' = s.write
       /\ call' = [op |-> "process_responses", resolve |-> resolve,
                   before |-> command.future,
                   read |-> read_responses, write |-> write_responses,
                   e |-> s.e, r |-> s.r, raised |-> s.raised]
       /\ UNCHANGED not_comms

\* The arguments AxiCommand is constructed with: addresses at the bottom and
\* around the top of the address space (2^32 - 5 .. 2^32), lengths and data
\* lists that agree or not, any direction, with and without a description.
ConstructArgs ==
    [start_address : {[hi |-> 0, lo |-> 0], [hi |-> 0, lo |-> 65535],
                      [hi |-> 65535, lo |-> 65531], [hi |-> 65535, lo |-> 65532],
                      [hi |-> 65535, lo |-> 65534], [hi |-> 65535, lo |-> 65535],
                      [hi |-> 65536, lo |-> 0]},
     length : 0..MaxLength,
     readorwrite : {READ_TYPE, WRITE_TYPE, "READWRITE"},
     data : {NoneV} \cup {ListV(d) : d \in SeqsUpTo({1}, MaxLength)},
     constant_address : BOOLEAN,
     description : {NoneV, ListV(<<>>), ListV(<<"d">>)},
     address_by_word : BOOLEAN]

\* AxiCommand(a.start_address, a.length, ...), once.
Construct(a) ==
    /\ call = NoCall
    /\ LET s == AxiCommand_init(a.start_address, a.length, a.readorwrite, a.data,
                                a.constant_address, a.description, a.address_by_word)
       IN /\ command' = s.self
          /\ call' = [op |-> "init", args |-> a, raised |-> s.raised]
    /\ UNCHANGED <<read_responses, write_responses, not_comms>>

\* command.future.set_result(v)
FutureSetResult(v) ==
    LET s == set_result(command.future, v)
    IN /\ command' = [command EXCEPT !.future = s.fut]
       /\ call' = [NoCall EXCEPT !.op = "set_result", !.before = command.future,
                                 !.r = v, !.raised = s.raised]
       /\ UNCHANGED <<read_responses, write_responses, not_comms>>

\* command.future.set_exception(x)
FutureSetException(x) ==
    LET s == set_exception(command.future, x)
    IN /\ command' = [command EXCEPT !.future = s.fut]
       /\ call' = [NoCall EXCEPT !.op = "set_exception", !.before = command.future,
                                 !.e = x, !.raised = s.raised]
       /\ UNCHANGED <<read_responses, write_responses, not_comms>>

\* command.future.result()
FutureResult ==
    LET s == result(command.future)
    IN /\ call' = [NoCall EXCEPT !.op = "result", !.before = command.future,
                                 !.r = s.value, !.raised = s.raised]
       /\ UNCHANGED <<command, read_responses, write_responses, not_comms>>


\* The responses drawn for the Future runs: one good beat, one bad beat.
FutureResponseSet == {AxiResponse(1, <<1>>, OKAY), AxiResponse(1, <<0>>, SLVERR)}


-----------------------------------------------------------------------------
(* cocotb_handler.py: CocotbHandler.  One clock cycle is a round of the    *)
(* five channel processors (each: drive, sample at ReadOnly, wait for the  *)
(* rising edge) closed by Tick.  The output processors take their step     *)
(* before the input processors, as their queue test precedes the ReadOnly  *)
(* phase in which Events are set.  The peer drives the signals the handler *)
(* only samples: any ready; a lawful peer presents a response only for a   *)
(* request it has accepted, a free peer presents one at any time.          *)

OutChannels == {"aw", "w", "ar"}
InChannels == {"b", "r"}
Channels == OutChannels \cup InChannels
Order == <<"aw", "w", "ar", "b", "r">>

\* start(): the default throttle, 0.8, in percent.
DefaultThrottle == 80
\* rnd.random() lies in [0, 1): a low and a high draw, in percent.
RandomDraws == {0, 90}

\* What the peer may answer on the response channels: a good and a bad
\* code, any of the four codes, or (the adder) OKAY only.
PeerResps ==
    CASE peer = "coded" -> {OKAY, EXOKAY, SLVERR, DECERR}
      [] peer = "adder" -> {OKAY}
      [] OTHER -> {OKAY, SLVERR}
PeerData == {0, 1}

\* examples/axi_adder.py: the registers of the adder.
INTA_ADDRESS == 0
INTB_ADDRESS == 1
INTC_ADDRESS == 2

\* triggers.Event(): not set, no data.
Event == [fired |-> FALSE, resp |-> None, data |-> None]

\* CocotbHandler.__init__: empty queues.  The *_hist fields record, per
\* queue, every entry ever appended with the submit call it came from.
CocotbHandler ==
    [aw_queue |-> <<>>, w_queue |-> <<>>, b_queue |-> <<>>,
     ar_queue |-> <<>>, r_queue |-> <<>>,
     events |-> <<>>, n_submits |-> 0,
     aw_hist |-> <<>>, w_hist |-> <<>>, b_hist |-> <<>>,
     ar_hist |-> <<>>, r_hist |-> <<>>]

Entry(item, submit) == [item |-> item, submit |-> submit]

\* A submit_write that forgets the completion handle (used to test the claims).
submit_write_no_handle(self, address, value) ==
    LET event == Len(self.events) + 1
        n == self.n_submits + 1
    IN [self |-> [self EXCEPT !.events = Append(@, Event), !.n_submits = n,
                              !.aw_queue = Append(@, address),
                              !.w_queue = Append(@, value),
                              !.aw_hist = Append(@, Entry(address, n)),
                              !.w_hist = Append(@, Entry(value, n))],
        event |-> event]

\* submit_write(address, value): returns the handler after the call and the
\* new Event (by its index in self.events).
submit_write(self, address, value) ==
    LET event == Len(self.events) + 1
        n == self.n_submits + 1
    IN [self |-> [self EXCEPT !.events = Append(@, Event), !.n_submits = n,
                              !.aw_queue = Append(@, address),
                              !.w_queue = Append(@, value),
                              !.b_queue = Append(@, event),
                              !.aw_hist = Append(@, Entry(address, n)),
                              !.w_hist = Append(@, Entry(value, n)),
                              !.b_hist = Append(@, Entry(event, n))],
        event |-> event]

submit_read(self, address) ==
    LET event == Len(self.events) + 1
        n == self.n_submits + 1
    IN [self |-> [self EXCEPT !.events = Append(@, Event), !.n_submits = n,
                              !.ar_queue = Append(@, address),
                              !.r_queue = Append(@, event),
                              !.ar_hist = Append(@, Entry(address, n)),
                              !.r_hist = Append(@, Entry(event, n))],
        event |-> event]

\* The queue a processor was started on (start(), 125-165).
QueueOf(self, ch) ==
    CASE ch = "aw" -> self.aw_queue
      [] ch = "w" -> self.w_queue
      [] ch = "ar" -> self.ar_queue
      [] ch = "b" -> self.b_queue
      [] ch = "r" -> self.r_queue

\* A processor that writes back to the W queue whatever its channel (used
\* to test the claims).
WithQueueOfW(self, ch, q) == [self EXCEPT !.w_queue = q]

WithQueue(self, ch, q) ==
    CASE ch = "aw" -> [self EXCEPT !.aw_queue = q]
      [] ch = "w" -> [self EXCEPT !.w_queue = q]
      [] ch = "ar" -> [self EXCEPT !.ar_queue = q]
      [] ch = "b" -> [self EXCEPT !.b_queue = q]
      [] ch = "r" -> [self EXCEPT !.r_queue = q]

\* A draw that ignores the throttle of the channel (used to test the claims).
DrawIgnoringThrottle(rnd, th) == IF rnd < DefaultThrottle THEN 1 ELSE 0

\* A draw that also passes at equality (used to test the claims).
DrawInclusive(rnd, th) == IF rnd <= th THEN 1 ELSE 0

\* valid = 1 if rnd.random() < queue_info.throttle else 0
Draw(rnd, th) == IF rnd < th THEN 1 ELSE 0

\* A read of the head that leaves it in the queue (used to test the claims).
queue_peek(q) == [item |-> Head(q), rest |-> q]

\* A pop from the wrong end of a channel queue (used to test the claims).
queue_pop(q) == [item |-> q[Len(q)], rest |-> SubSeq(q, 1, Len(q) - 1)]

\* queue.popleft() of the channel processors.
queue_popleft(q) == [item |-> Head(q), rest |-> Tail(q)]

\* A processor that moves on after one cycle, accepted or not (used to test
\* the claims).
ConsumedAtOnce(ready, valid) == TRUE

\* A consumed that forgets valid (used to test the claims).
ConsumedOnReady(ready, valid) == ready = 1

\* consumed = (ready_signal == 1) and valid
Consumed(ready, valid) == ready = 1 /\ valid = 1

\* An acceptance test that never passes, as one that compares the signal
\* with the text '1' would (used to test the claims).
AcceptedNever(valid, ready) == FALSE

\* An acceptance that forgets ready (used to test the claims).
AcceptedOnValid(valid, ready) == valid = 1

\* (valid_signal == 1) and ready
Accepted(valid, ready) == valid = 1 /\ ready = 1

NoLast ==
    [ch |-> "none", held |-> None, valid |-> None, ready |-> None,
     event |-> 0, pending |-> 0, resp |-> None, data |-> None,
     raised |-> NoException]

\* It is ch's step of the current cycle.
Turn(ch) == turn <= Len(Order) /\ Order[turn] = ch

\* One cycle of process_queue_out on channel ch (242-264): take a value if
\* none is held, draw valid, drive, sample ready, wait for the edge.
process_queue_out(ch) ==
    /\ Turn(ch)
    /\ proc[ch].alive
    /\ LET q == QueueOf(handler, ch)
           inner == proc[ch].value # None
       IN IF ~inner /\ q = <<>>
          THEN /\ signals' = [signals EXCEPT ![ch].valid = 0]
               /\ last' = [NoLast EXCEPT !.ch = ch, !.valid = 0]
               /\ UNCHANGED <<handler, proc, wire>>
          ELSE \E rnd \in RandomDraws, ready \in {0, 1} :
               LET p == IF inner THEN [item |-> proc[ch].value, rest |-> q]
                        ELSE queue_popleft(q)
                   value == p.item
                   valid == Draw(rnd, throttle[ch])
                   data == IF valid = 1 THEN value ELSE signals[ch].data
                   consumed == Consumed(ready, valid)
               IN /\ handler' = WithQueue(handler, ch, p.rest)
                  /\ signals' = [signals EXCEPT ![ch].valid = valid, ![ch].data = data]
                  /\ proc' = [proc EXCEPT ![ch].value = IF consumed THEN None ELSE value]
                  /\ wire' = IF valid = 1 /\ ready = 1
                             THEN [wire EXCEPT ![ch] = Append(@, data)] ELSE wire
                  /\ last' = [NoLast EXCEPT !.ch = ch, !.held = value, !.valid = valid,
                                            !.ready = ready]
    /\ turn' = turn + 1
    /\ UNCHANGED <<calls, throttle, peer, not_cocotb>>

\* The requests the peer has accepted and not yet answered: a write once
\* its AW and W beats were both transferred, a read once its AR beat was.
Outstanding(ch) ==
    IF ch = "b"
    THEN (IF Len(wire["aw"]) < Len(wire["w"]) THEN Len(wire["aw"]) ELSE Len(wire["w"]))
         - Len(wire["b"])
    ELSE Len(wire["ar"]) - Len(wire["r"])

\* The adder slave: a register holds the data of the last write whose
\* address and data the slave has both received, and 0 before any.
Register(address) ==
    LET n == IF Len(wire["aw"]) < Len(wire["w"]) THEN Len(wire["aw"]) ELSE Len(wire["w"])
        written == {i \in 1..n : wire["aw"][i] = address}
    IN IF written = {} THEN 0
       ELSE wire["w"][CHOOSE i \in written : \A j \in written : j <= i]

\* What the adder slave answers to the oldest read it has not answered yet:
\* intA + intB for a read of intC, the register for any other address.
AdderRead ==
    LET address == wire["ar"][Len(wire["r"]) + 1]
    IN IF address = INTC_ADDRESS THEN Register(INTA_ADDRESS) + Register(INTB_ADDRESS)
       ELSE Register(address)

\* The data the peer may present with a response.
PeerDataOn(ch) ==
    IF ch # "r" THEN {None}
    ELSE IF peer = "adder" THEN {AdderRead}
    ELSE PeerData

\* The valid the peer may present on a response channel this cycle.
PeerValid(ch) ==
    IF peer = "free" \/ Outstanding(ch) > 0 THEN {0, 1} ELSE {0}

\* One cycle of process_queue_in on channel ch (267-285): draw ready, drive,
\* sample valid, on valid and ready pop a handle and set it.
process_queue_in(ch) ==
    /\ Turn(ch)
    /\ proc[ch].alive
    /\ \E rnd \in RandomDraws, valid \in PeerValid(ch) :
       LET ready == Draw(rnd, throttle[ch])
           q == QueueOf(handler, ch)
       IN /\ IF Accepted(valid, ready)
             THEN IF q = <<>>
                  THEN /\ proc' = [proc EXCEPT ![ch].alive = FALSE]
                       /\ last' = [NoLast EXCEPT !.ch = ch, !.valid = valid, !.ready = ready,
                                                 !.raised = IndexError]
                       /\ UNCHANGED <<handler, wire>>
                  ELSE \E resp \in PeerResps, data \in PeerDataOn(ch) :
                       LET p == queue_popleft(q)
                           self == WithQueue(handler, ch, p.rest)
                       IN /\ handler' = [self EXCEPT !.events[p.item] =
                                            [fired |-> TRUE, resp |-> resp, data |-> data]]
                          /\ wire' = [wire EXCEPT ![ch] = Append(@, p.item)]
                          /\ last' = [NoLast EXCEPT !.ch = ch, !.valid = valid,
                                                    !.ready = ready, !.event = p.item,
                                                    !.pending = Len(q),
                                                    !.resp = resp, !.data = data]
                          /\ UNCHANGED proc
             ELSE /\ last' = [NoLast EXCEPT !.ch = ch, !.valid = valid, !.ready = ready,
                                            !.pending = Len(q)]
                  /\ UNCHANGED <<handler, proc, wire>>
    /\ turn' = turn + 1
    /\ UNCHANGED <<signals, calls, throttle, peer, not_cocotb>>

\* random.Random(seed).random(), in percent: what a generator seeded with
\* `seed` returns on its call number k (from 0).  A generator is
\* deterministic: the value depends on the seed and on k only.
Rand(seed, k) == (((seed \div 10000) + (seed % 10000) + 1) * 37 + k * 53) % 100

\* The generators of two runs of a handler constructed with random_seed:
\* `random` is the state the random module starts each run in, pos counts
\* the random() calls made on each generator (on "random", the module itself,
\* or on the Random object of a channel), decisions are the valid / ready
\* values each channel has drawn.
Generators(random_seed, random) ==
    [random_seed |-> random_seed, random |-> random,
     pos |-> [run \in {1, 2} |-> [g \in Channels \cup {"random"} |-> 0]],
     decisions |-> [run \in {1, 2} |-> [ch \in Channels |-> <<>>]]]

\* rnd.random() < throttle in the processor of channel ch of a run (247 and
\* 252, 273 and 275): rnd is the random module if random_seed is None, else
\* the processor's own Random(random_seed + 10000 .. 50000).
rnd_random(run, ch) ==
    /\ rng.pos[run]["random"] + rng.pos[run]["aw"] + rng.pos[run]["w"] + rng.pos[run]["b"]
          + rng.pos[run]["ar"] + rng.pos[run]["r"] < MaxDraws
    /\ LET own == CASE ch = "aw" -> 10000 [] ch = "w" -> 20000 [] ch = "b" -> 30000
                     [] ch = "ar" -> 40000 [] ch = "r" -> 50000
           rnd == IF rng.random_seed = None THEN "random" ELSE ch
           seed == IF rng.random_seed = None THEN rng.random[run]
                   ELSE rng.random_seed + own
           decision == Draw(Rand(seed, rng.pos[run][rnd]), throttle[ch])
       IN rng' = [rng EXCEPT !.pos[run][rnd] = @ + 1,
                             !.decisions[run][ch] = Append(@, decision)]
    /\ UNCHANGED <<comms_vars, cocotb_vars, dict_vars, pipe_vars>>

\* A processor that goes on after it has raised (used to test the claims).
Revived(ch) ==
    /\ Turn(ch)
    /\ ~proc[ch].alive
    /\ proc' = [proc EXCEPT ![ch].alive = TRUE]
    /\ turn' = turn + 1
    /\ UNCHANGED <<handler, signals, calls, last, wire, throttle, peer, not_cocotb>>

\* A processor that has raised takes no further part.
Terminated(ch) ==
    /\ Turn(ch)
    /\ ~proc[ch].alive
    /\ turn' = turn + 1
    /\ UNCHANGED <<handler, signals, proc, calls, last, wire, throttle, peer, not_cocotb>>

-----------------------------------------------------------------------------
(* cocotb_handler.py: the callers, write(), read() and send().             *)

AxiResponseException == "AxiResponseException"
AttributeError == "AttributeError"

NoCommand == [cls |-> "none"]

\* A coroutine running write / read / send / async_add_numbers.  pc: "edges"
\* while send waits for the rising edges of a FakeWaitCommand, "writes"
\* while async_add_numbers waits for its two writes, "await" while a call
\* waits for its Events, "done" once it has returned or raised.  submits: how many
\* beats had been submitted to the handler when the call ended.
Coroutine(kind, cmd) ==
    [kind |-> kind, command |-> cmd, acs |-> <<>>, idx |-> 1, edges |-> 0,
     write_events |-> <<>>, read_events |-> <<>>, pc |-> "await",
     ret |-> NoneV, raised |-> NoException, submits |-> 0,
     read_responses |-> <<>>, write_responses |-> <<>>]

\* The address of beat `offset` (send, 181-186 and 190-195).
BeatAddress(ac, offset) ==
    IF ac.constant_address THEN ac.start_address
    ELSE IF ac.address_by_word THEN ac.start_address + offset
    ELSE ac.start_address + offset * 4

\* The beat loops of send (180-187, 189-196), from beat `offset` on.
RECURSIVE SubmitBeats(_, _, _, _)
SubmitBeats(self, ac, offset, evs) ==
    IF offset >= ac.length THEN [self |-> self, events |-> evs]
    ELSE LET s == IF ac.readorwrite = WRITE_TYPE
                  THEN submit_write(self, BeatAddress(ac, offset), ac.data[offset + 1])
                  ELSE submit_read(self, BeatAddress(ac, offset))
         IN SubmitBeats(s.self, ac, offset + 1, Append(evs, s.event))

\* The for loop of send (173-196) from axi command idx on, until it has to
\* wait for a rising edge or the commands are exhausted.
RECURSIVE Decompose(_, _)
Decompose(self, co) ==
    IF co.idx > Len(co.acs) THEN [self |-> self, co |-> [co EXCEPT !.pc = "await"]]
    ELSE LET ac == co.acs[co.idx]
         IN IF IsFakeWait(ac)
            THEN IF ac.clock_cycles > 0
                 THEN [self |-> self,
                       co |-> [co EXCEPT !.pc = "edges", !.edges = ac.clock_cycles,
                                         !.idx = @ + 1]]
                 ELSE Decompose(self, [co EXCEPT !.idx = @ + 1])
            ELSE LET s == SubmitBeats(self, ac, 0, <<>>)
                     co2 == IF ac.readorwrite = WRITE_TYPE
                            THEN [co EXCEPT !.write_events = @ \o s.events, !.idx = @ + 1]
                            ELSE [co EXCEPT !.read_events = @ \o s.events, !.idx = @ + 1]
                 IN Decompose(s.self, co2)

\* [f.data for f in events], as the AxiResponse deque of send (202-208).
EventResponses(self, evs) ==
    [i \in 1..Len(evs) |->
        AxiResponse(1, <<self.events[evs[i]].data>>, self.events[evs[i]].resp)]

\* A send that waits for its write handles only (used to test the claims).
AllSetWritesOnly(self, co) ==
    \A i \in 1..Len(co.write_events) : self.events[co.write_events[i]].fired

\* The two wait loops of send (198-201), and the wait of write and read:
\* every Event of the coroutine has been set.
AllSet(self, co) ==
    /\ \A i \in 1..Len(co.write_events) : self.events[co.write_events[i]].fired
    /\ \A i \in 1..Len(co.read_events) : self.events[co.read_events[i]].fired

\* A Combine that waits for the first call only (used to test the claims).
CombineFirst(self, co) == self.events[co.write_events[1]].fired

\* cocotb_wrapper.Combine of the two write() calls of async_add_numbers:
\* both have ended.
Combine(self, co) == AllSet(self, co)

\* The coroutine can run now (the scheduler runs it before time advances).
Runnable(co) ==
    \/ co.pc = "edges" /\ co.edges = 0
    \/ co.pc = "await" /\ AllSet(handler, co)
    \/ co.pc = "writes" /\ Combine(handler, co)

\* The beats a command submits.
RECURSIVE Beats(_, _)
Beats(acs, i) ==
    IF i > Len(acs) THEN 0
    ELSE (IF IsFakeWait(acs[i]) THEN 0 ELSE acs[i].length) + Beats(acs, i + 1)

\* The beats the calls under way have still to submit: the read of an
\* async_add_numbers that waits for its writes.
ToSubmit == Cardinality({c \in 1..Len(calls) : calls[c].pc = "writes"})

\* A further call that submits n beats stays within the bounds.
MayCall(n) ==
    LET beats == Len(handler.events) + ToSubmit + n
    IN CASE peer = "free" -> Len(calls) < FreeCalls /\ beats <= FreeBeats
         [] peer = "adder" -> Len(calls) < AdderCalls /\ beats <= AdderBeats
         [] peer = "fair" -> Len(calls) < LiveCalls /\ beats <= LiveBeats
         [] OTHER -> Len(calls) < MaxCalls /\ beats <= MaxBeats

\* write(address, value), up to its await.
write(address, value) ==
    /\ MayCall(1)
    /\ LET s == submit_write(handler, address, value)
       IN /\ handler' = s.self
          /\ calls' = Append(calls, [Coroutine("write", NoCommand)
                                        EXCEPT !.write_events = <<s.event>>])
    /\ UNCHANGED <<signals, proc, turn, last, wire, throttle, peer, not_cocotb>>

\* read(address), up to its await.
read(address) ==
    /\ MayCall(1)
    /\ LET s == submit_read(handler, address)
       IN /\ handler' = s.self
          /\ calls' = Append(calls, [Coroutine("read", NoCommand)
                                        EXCEPT !.read_events = <<s.event>>])
    /\ UNCHANGED <<signals, proc, turn, last, wire, throttle, peer, not_cocotb>>

\* send(command), up to its first await.
send(cmd) ==
    /\ MayCall(Beats(get_axi_commands(cmd), 1))
    /\ LET s == Decompose(handler, [Coroutine("send", cmd)
                                       EXCEPT !.acs = get_axi_commands(cmd)])
       IN /\ handler' = s.self
          /\ calls' = Append(calls, s.co)
    /\ UNCHANGED <<signals, proc, turn, last, wire, throttle, peer, not_cocotb>>

\* send goes on after the rising edges of a FakeWaitCommand.
send_after_wait(c) ==
    /\ calls[c].pc = "edges" /\ calls[c].edges = 0
    /\ LET s == Decompose(handler, calls[c])
       IN /\ handler' = s.self
          /\ calls' = [calls EXCEPT ![c] = s.co]
    /\ UNCHANGED <<signals, proc, turn, last, wire, throttle, peer, not_cocotb>>

\* A test that lets EXOKAY pass (used to test the claims).
FailedOnError(response) == response \in {SLVERR, DECERR}

\* if response != comms.OKAY (223, 237)
Failed(response) == response # OKAY

\* write / read after event.wait() (222-225, 236-239).
wait_returns(c) ==
    /\ calls[c].kind \in {"write", "read"}
    /\ calls[c].pc = "await" /\ AllSet(handler, calls[c])
    /\ LET evs == calls[c].write_events \o calls[c].read_events
           ev == handler.events[evs[1]]
       IN calls' = [calls EXCEPT ![c].pc = "done", ![c].submits = handler.n_submits,
                       ![c].raised = IF Failed(ev.resp) THEN AxiResponseException
                                     ELSE NoException,
                       ![c].ret = IF Failed(ev.resp) THEN NoneV ELSE IntV(ev.data)]
    /\ UNCHANGED <<handler, signals, proc, turn, last, wire, throttle, peer, not_cocotb>>

\* send after its wait loops (202-210): build the responses, hand them to
\* process_responses, return command.future.result().
send_returns(c) ==
    /\ calls[c].kind = "send"
    /\ calls[c].pc = "await" /\ AllSet(handler, calls[c])
    /\ LET co == calls[c]
           wr == EventResponses(handler, co.write_events)
           rd == EventResponses(handler, co.read_events)
           s == process_responses(co.command, rd, wr, TRUE)
           res == IF IsFakeWait(co.command)
                  THEN [raised |-> AttributeError, value |-> NoneV]
                  ELSE result(s.cmd.future)
       IN calls' = [calls EXCEPT ![c].pc = "done", ![c].command = s.cmd,
                       ![c].submits = handler.n_submits,
                       ![c].read_responses = rd, ![c].write_responses = wr,
                       ![c].raised = IF s.raised # NoException THEN s.raised
                                     ELSE res.raised,
                       ![c].ret = IF s.raised # NoException THEN NoneV ELSE res.value]
    /\ UNCHANGED <<handler, signals, proc, turn, last, wire, throttle, peer, not_cocotb>>

\* examples/axi_adder.py, AxiAdderComm.async_add_numbers(a, b) up to its
\* first await: the two write() calls combined.
async_add_numbers(a, b) ==
    /\ MayCall(3)
    /\ LET wa == submit_write(handler, INTA_ADDRESS, a)
           wb == submit_write(wa.self, INTB_ADDRESS, b)
       IN /\ handler' = wb.self
          /\ calls' = Append(calls, [Coroutine("async_add_numbers", NoCommand)
                                        EXCEPT !.write_events = <<wa.event, wb.event>>,
                                               !.pc = "writes"])
    /\ UNCHANGED <<signals, proc, turn, last, wire, throttle, peer, not_cocotb>>

\* async_add_numbers once both writes have ended: a failed write raises, else
\* read(intC) is called.
async_add_numbers_read(c) ==
    /\ calls[c].pc = "writes" /\ Combine(handler, calls[c])
    /\ LET co == calls[c]
           failed == \E i \in 1..Len(co.write_events) :
                        Failed(handler.events[co.write_events[i]].resp)
           s == submit_read(handler, INTC_ADDRESS)
       IN IF failed
          THEN /\ calls' = [calls EXCEPT ![c].pc = "done", ![c].raised = AxiResponseException,
                                         ![c].submits = handler.n_submits]
               /\ UNCHANGED handler
          ELSE /\ handler' = s.self
               /\ calls' = [calls EXCEPT ![c].pc = "await", ![c].read_events = <<s.event>>]
    /\ UNCHANGED <<signals, proc, turn, last, wire, throttle, peer, not_cocotb>>

\* async_add_numbers after its read has ended: the result of the read.
async_add_numbers_returns(c) ==
    /\ calls[c].kind = "async_add_numbers"
    /\ calls[c].pc = "await" /\ AllSet(handler, calls[c])
    /\ LET ev == handler.events[calls[c].read_events[1]]
       IN calls' = [calls EXCEPT ![c].pc = "done", ![c].submits = handler.n_submits,
                       ![c].raised = IF Failed(ev.resp) THEN AxiResponseException
                                     ELSE NoException,
                       ![c].ret = IF Failed(ev.resp) THEN NoneV ELSE IntV(ev.data)]
    /\ UNCHANGED <<handler, signals, proc, turn, last, wire, throttle, peer, not_cocotb>>

\* The rising edge: every processor has had its cycle and every coroutine
\* that could run has run.
Tick ==
    /\ turn = Len(Order) + 1
    /\ \A c \in 1..Len(calls) : ~Runnable(calls[c])
    /\ turn' = 1
    /\ calls' = [c \in 1..Len(calls) |->
                    IF calls[c].pc = "edges"
                    THEN [calls[c] EXCEPT !.edges = @ - 1] ELSE calls[c]]
    /\ UNCHANGED <<handler, signals, proc, last, wire, throttle, peer, not_cocotb>>

\* The commands sent, and the arguments of the write and read calls.
SendSet ==
    {AddNumbersCommand(1, 2, <<0, 1, 2>>),
     CombinedCommand(<<SetUnsignedCommand(1, 1), FakeWaitCommand(1),
                       SetUnsignedCommand(2, 0)>>),
     GetUnsignedsCommand(1, 2, FALSE),
     FakeWaitCommand(1)}

CallAddresses == {2}
CallValues == {3}

\* The numbers given to the adder, and the registers read back.
AdderValues == {1, 2}
AdderReads == {INTA_ADDRESS, INTC_ADDRESS}
AdderAddresses == <<INTA_ADDRESS, INTB_ADDRESS, INTC_ADDRESS>>
\* The commands add_numbers sends.
AdderSendSet == {AddNumbersCommand(a, b, AdderAddresses) : a, b \in AdderValues}

-----------------------------------------------------------------------------
(* dicts.py and handlers.py: DictCommandHandler.                           *)

make_empty_axi4lite_m2s_dict ==
    [araddr |-> 0, arprot |-> 0, arvalid |-> 0, awaddr |-> 0, awprot |-> 0,
     awvalid |-> 0, bready |-> 1, rready |-> 1, wdata |-> 0, wstrb |-> 15,
     wvalid |-> 0]

\* A make_axi4lite_m2s_dict that leaves bready and rready at their defaults
\* of 0 (used to test the claims).
make_axi4lite_m2s_dict_defaults(bready, rready) ==
    [make_empty_axi4lite_m2s_dict EXCEPT !.bready = 0, !.rready = 0]

\* make_axi4lite_m2s_dict(bready=bready, rready=rready), no address or data.
make_axi4lite_m2s_dict(bready, rready) ==
    [make_empty_axi4lite_m2s_dict EXCEPT !.bready = bready, !.rready = rready]

make_empty_axi4lite_s2m_dict ==
    [arready |-> 1, awready |-> 1, bresp |-> 0, bvalid |-> 0, rdata |-> 0,
     rresp |-> 0, rvalid |-> 0, wready |-> 1]

\* The dict of beat `index` of ac (axi_commands_to_axi_dicts, 88-100).
BeatDict(ac, index) ==
    LET d == make_axi4lite_m2s_dict(1, 1)
        address == IF ac.constant_address THEN ac.start_address
                   ELSE ac.start_address + index
    IN IF ac.readorwrite = READ_TYPE
       THEN [d EXCEPT !.araddr = address, !.arvalid = 1]
       ELSE [d EXCEPT !.awaddr = address, !.awvalid = 1, !.wvalid = 1,
                      !.wdata = ac.data[index + 1]]

\* axi_commands_to_axi_dicts(axi_commands), from command i on.
RECURSIVE axi_commands_to_axi_dicts(_, _)
axi_commands_to_axi_dicts(axi_commands, i) ==
    IF i > Len(axi_commands) THEN <<>>
    ELSE LET ac == axi_commands[i]
             ds == IF IsFakeWait(ac)
                   THEN [n \in 1..ac.clock_cycles |-> make_axi4lite_m2s_dict(1, 1)]
                   ELSE [n \in 1..ac.length |-> BeatDict(ac, n - 1)]
         IN ds \o axi_commands_to_axi_dicts(axi_commands, i + 1)

\* A filter that keeps every map with valid set, ready or not (used to test
\* the claims).
RECURSIVE KeptOnValid(_, _, _)
KeptOnValid(ds, i, channel) ==
    IF i > Len(ds) THEN <<>>
    ELSE LET d == ds[i]
             keep == IF channel = "b" THEN d.bvalid # 0 ELSE d.rvalid # 0
         IN (IF keep THEN <<d>> ELSE <<>>) \o KeptOnValid(ds, i + 1, channel)

\* [f(d) for d in ds if keep(d)], as a list of the kept positions.
RECURSIVE Kept(_, _, _)
Kept(ds, i, channel) ==
    IF i > Len(ds) THEN <<>>
    ELSE LET d == ds[i]
             keep == IF channel = "b" THEN d.bvalid # 0 /\ d.bready # 0
                     ELSE d.rvalid # 0 /\ d.rready # 0
         IN (IF keep THEN <<d>> ELSE <<>>) \o Kept(ds, i + 1, channel)

\* axi_dicts_to_axi_responses(axi_dicts): the two deques, or the assertion.
axi_dicts_to_axi_responses(axi_dicts) ==
    LET ok == /\ \A i \in 1..Len(axi_dicts) : axi_dicts[i].bvalid # None
              /\ \A i \in 1..Len(axi_dicts) : axi_dicts[i].rvalid # None
              /\ \A i \in 1..Len(axi_dicts) :
                    axi_dicts[i].arvalid # 0 => axi_dicts[i].arready # 0
              /\ \A i \in 1..Len(axi_dicts) :
                    axi_dicts[i].awvalid # 0 => axi_dicts[i].awready # 0
              /\ \A i \in 1..Len(axi_dicts) :
                    axi_dicts[i].wvalid # 0 => axi_dicts[i].wready # 0
        write_ds == Kept(axi_dicts, 1, "b")
        read_ds == Kept(axi_dicts, 1, "r")
    IN IF ~ok THEN [read |-> <<>>, write |-> <<>>, raised |-> AssertionError]
       ELSE [read |-> [i \in 1..Len(read_ds) |->
                          AxiResponse(1, <<read_ds[i].rdata>>, read_ds[i].rresp)],
             write |-> [i \in 1..Len(write_ds) |->
                           AxiResponse(1, <<None>>, write_ds[i].bresp)],
             raised |-> NoException]

\* DictCommandHandler.__init__.  n_processed counts, for each entry of
\* sent_commands, the calls of its process_responses.
DictCommandHandler ==
    [unsent_commands |-> <<>>, sent_commands |-> <<>>, n_processed |-> <<>>,
     returned |-> <<>>]

\* A send that puts the command in front of the stored ones (used to test
\* the claims).
DictCommandHandler_send_first(self, cmd) ==
    [self EXCEPT !.unsent_commands = <<cmd>> \o @]

\* DictCommandHandler.send(command)
DictCommandHandler_send(self, cmd) ==
    [self EXCEPT !.unsent_commands = Append(@, cmd)]

\* DictCommandHandler.get_axi_commands(): the handler after the call and the
\* list returned.
DictCommandHandler_get_axi_commands(self) ==
    [self |-> [self EXCEPT !.unsent_commands = <<>>,
                           !.sent_commands = @ \o self.unsent_commands,
                           !.n_processed = @ \o [i \in 1..Len(self.unsent_commands) |-> 0],
                           !.returned = @ \o [i \in 1..Len(self.unsent_commands) |->
                                                 [e |-> NoException, r |-> NoneV,
                                                  read |-> <<>>, write |-> <<>>]]],
     axi_commands |-> get_axi_commands_of(self.unsent_commands, 1)]

\* The for loop of DictCommandHandler.process_responses, from entry i on;
\* s is what the process_responses of entry i left behind.
RECURSIVE DictCommandHandler_process_responses(_, _, _, _)
AfterCommand(self, i, rd, wr, s) ==
    LET self2 == [self EXCEPT !.sent_commands[i] = s.cmd, !.n_processed[i] = @ + 1,
                              !.returned[i] =
                                 [e |-> s.e, r |-> s.r,
                                  read |-> SubSeq(rd, 1, Len(rd) - Len(s.read)),
                                  write |-> SubSeq(wr, 1, Len(wr) - Len(s.write))]]
    IN IF s.raised # NoException
       THEN [self |-> self2, read |-> s.read, write |-> s.write, raised |-> s.raised]
       ELSE DictCommandHandler_process_responses(self2, i + 1, s.read, s.write)

DictCommandHandler_process_responses(self, i, rd, wr) ==
    IF i > Len(self.sent_commands)
    THEN [self |-> self, read |-> rd, write |-> wr, raised |-> NoException]
    ELSE AfterCommand(self, i, rd, wr, process_responses(self.sent_commands[i], rd, wr,
                                                 ~IsFakeWait(self.sent_commands[i])))

NoDictCall ==
    [op |-> "none", raised |-> NoException, before |-> DictCommandHandler]

\* handler.send(command)
DictSend(cmd) ==
    /\ Len(dict_handler.unsent_commands) + Len(dict_handler.sent_commands) < MaxSent
    /\ dict_handler' = DictCommandHandler_send(dict_handler, cmd)
    /\ dict_call' = [NoDictCall EXCEPT !.op = "send", !.before = dict_handler]
    /\ UNCHANGED <<ads, not_dict>>

\* handler.make_command_dicts()
DictMakeCommandDicts ==
    /\ LET s == DictCommandHandler_get_axi_commands(dict_handler)
       IN /\ dict_handler' = s.self
          /\ ads' = axi_commands_to_axi_dicts(s.axi_commands, 1)
    /\ dict_call' = [NoDictCall EXCEPT !.op = "make_command_dicts", !.before = dict_handler]
    /\ UNCHANGED not_dict

\* {**ipt, **opt} for each cycle (test_utils.py 55-56).
MergedDicts(m2s, s2m) == [i \in 1..Len(m2s) |-> m2s[i] @@ s2m[i]]

\* handler.consume_response_dicts(ds), ds the dicts sent merged with what the
\* simulation answered in each cycle.
DictConsumeResponseDicts(s2m) ==
    /\ Len(s2m) = Len(ads)
    /\ \A i \in 1..Len(dict_handler.n_processed) : dict_handler.n_processed[i] < MaxProcessed
    /\ LET r == axi_dicts_to_axi_responses(MergedDicts(ads, s2m))
           s == DictCommandHandler_process_responses(dict_handler, 1, r.read, r.write)
       IN IF r.raised # NoException
          THEN /\ dict_call' = [NoDictCall EXCEPT !.op = "consume_response_dicts",
                                   !.before = dict_handler, !.raised = r.raised]
               /\ UNCHANGED dict_handler
          ELSE /\ dict_handler' = s.self
               /\ dict_call' = [NoDictCall EXCEPT !.op = "process_responses",
                                   !.before = dict_handler, !.raised = s.raised]
    /\ UNCHANGED <<ads, not_dict>>

\* axi_dicts_to_axi_responses(ds) called on the cycle maps held in ads.
AxiDictsToAxiResponses ==
    /\ dict_call.op = "none"
    /\ LET r == axi_dicts_to_axi_responses(ads)
       IN dict_call' = [op |-> "axi_dicts_to_axi_responses", raised |-> r.raised,
                        before |-> DictCommandHandler,
                        read |-> r.read, write |-> r.write]
    /\ UNCHANGED <<dict_handler, ads, not_dict>>

\* What the simulation may answer in a cycle: nothing, a write response, a
\* read response, a failed read response, a read request not accepted.
S2MSet ==
    {make_empty_axi4lite_s2m_dict,
     [make_empty_axi4lite_s2m_dict EXCEPT !.bvalid = 1],
     [make_empty_axi4lite_s2m_dict EXCEPT !.bvalid = 1, !.bresp = SLVERR],
     [make_empty_axi4lite_s2m_dict EXCEPT !.rvalid = 1, !.rdata = 1],
     [make_empty_axi4lite_s2m_dict EXCEPT !.rvalid = 1, !.rdata = 2, !.rresp = SLVERR],
     [make_empty_axi4lite_s2m_dict EXCEPT !.arready = 0]}

\* The commands sent to the DictCommandHandler.
DictSendSet ==
    {GetUnsignedsCommand(0, 2, FALSE), GetUnsignedCommand(1), SetUnsignedCommand(1, 0),
     CombinedCommand(<<SetUnsignedCommand(2, 1), FakeWaitCommand(1)>>),
     SetUnsignedsCommand(<<1, 2>>, 0, FALSE, FALSE)}

-----------------------------------------------------------------------------
(* handlers.py: NamedPipeHandler.                                          *)

\* NamedPipeHandler.__init__.  n_read_beats / n_write_beats count the beats
\* sent so far, n_read_responses / n_write_responses the responses recorded.
NamedPipeHandler ==
    [sent_commands |-> <<>>,
     unsent_read_addresses |-> <<>>, unsent_write_addresses |-> <<>>,
     unsent_write_datas |-> <<>>,
     read_responses |-> <<>>, write_responses |-> <<>>,
     n_read_beats |-> 0, n_write_beats |-> 0,
     n_read_responses |-> 0, n_write_responses |-> 0]

\* add_axi_command(axi_command): the three lists it returns.
add_axi_command(axi_command) ==
    LET address(index) == IF axi_command.constant_address THEN axi_command.start_address
                          ELSE axi_command.start_address + index
    IN IF axi_command.readorwrite = READ_TYPE
       THEN [read_addresses |-> [n \in 1..axi_command.length |-> address(n - 1)],
             write_addresses |-> <<>>, write_datas |-> <<>>]
       ELSE [read_addresses |-> <<>>,
             write_addresses |-> [n \in 1..Len(axi_command.data) |-> address(n - 1)],
             write_datas |-> axi_command.data]

\* The for loop of NamedPipeHandler.send (155-162), from axi command i on.
RECURSIVE AddAxiCommands(_, _, _)
AddAxiCommands(axi_commands, i, acc) ==
    IF i > Len(axi_commands) THEN acc
    ELSE LET new == add_axi_command(axi_commands[i])
         IN AddAxiCommands(axi_commands, i + 1,
               [read_addresses |-> acc.read_addresses \o new.read_addresses,
                write_addresses |-> acc.write_addresses \o new.write_addresses,
                write_datas |-> acc.write_datas \o new.write_datas])

\* What the caller holds of a command it sent: the object, the read and write
\* beats sent before it, and what its process_responses consumed.
Sent(cmd, read_from, write_from) ==
    [command |-> cmd, read_from |-> read_from, write_from |-> write_from,
     n_processed |-> 0, first_read |-> 0, reads_taken |-> 0,
     first_write |-> 0, writes_taken |-> 0]

\* NamedPipeHandler.send(command); id is the place of the command among
\* the caller's commands.
NamedPipeHandler_send(self, cmd, id) ==
    LET new == AddAxiCommands(get_axi_commands(cmd), 1,
                  [read_addresses |-> <<>>, write_addresses |-> <<>>, write_datas |-> <<>>])
        n_reads == Len(new.read_addresses)
        n_writes == Len(new.write_addresses)
    IN [self EXCEPT
           !.unsent_read_addresses = @ \o new.read_addresses,
           !.unsent_write_addresses = @ \o new.write_addresses,
           !.unsent_write_datas = @ \o new.write_datas,
           !.sent_commands = Append(@, [command |-> id, n_reads |-> n_reads,
                                        n_writes |-> n_writes]),
           !.n_read_beats = @ + n_reads, !.n_write_beats = @ + n_writes]

\* random_address() / random_data(): driven while valid is 0.
RandomWords == {0}

\* The locals of communicate before its loop (178-183), at cycle 0; those
\* assigned in the loop (r_ready, b_ready, 209-210, and the outputs sampled,
\* 231-235) are not bound yet.  appended_reads / appended_writes hold the
\* response lines 236-243 appended in the last cycle, if any.
Communicate ==
    [ar_valid |-> 0, aw_valid |-> 0, w_valid |-> 0,
     ar_ready |-> 0, aw_ready |-> 0, w_ready |-> 0,
     ar_addr |-> None, aw_addr |-> None, w_data |-> None,
     r_ready |-> None, b_ready |-> None,
     b_valid |-> None, b_resp |-> None,
     r_valid |-> None, r_resp |-> None, r_data |-> None,
     appended_reads |-> <<>>, appended_writes |-> <<>>,
     clk |-> 0, raised |-> NoException]

\* A block that takes the next unsent value in every cycle, accepted or not
\* (used to test the claims).
NextValueUnheld(valid, ready, value, unsent, rnd) ==
    IF unsent # <<>>
    THEN [valid |-> 1, value |-> Head(unsent), unsent |-> Tail(unsent)]
    ELSE [valid |-> 0, value |-> rnd, unsent |-> unsent]

\* One of the three blocks 188-208: take the next unsent value when the
\* channel is idle or its value was accepted.
NextValue(valid, ready, value, unsent, rnd) ==
    IF valid = 0 \/ ready = 1
    THEN IF unsent # <<>>
         THEN [valid |-> 1, value |-> Head(unsent), unsent |-> Tail(unsent)]
         ELSE [valid |-> 0, value |-> rnd, unsent |-> unsent]
    ELSE [valid |-> valid, value |-> value, unsent |-> unsent]

\* Lines 236-243: the responses recorded from the outputs of this cycle.
RecordResponses(self, opt, r_ready, b_ready) ==
    LET r == opt.rvalid = 1 /\ r_ready = 1
        b == opt.bvalid = 1 /\ b_ready = 1
    IN [self EXCEPT
           !.read_responses = IF r THEN Append(@, AxiResponse(1, <<opt.rdata>>, opt.rresp))
                              ELSE @,
           !.n_read_responses = IF r THEN @ + 1 ELSE @,
           !.write_responses = IF b THEN Append(@, AxiResponse(1, <<None>>, opt.rresp))
                               ELSE @,
           !.n_write_responses = IF b THEN @ + 1 ELSE @]

\* The caller's command after its process_responses left s behind; rd and wr
\* are the deques before the call.
Processed(held, self, s) ==
    LET reads_taken == Len(self.read_responses) - Len(s.read)
        writes_taken == Len(self.write_responses) - Len(s.write)
        reads_popped == self.n_read_responses - Len(self.read_responses)
        writes_popped == self.n_write_responses - Len(self.write_responses)
    IN IF held.n_processed > 0
       THEN [held EXCEPT !.command = s.cmd, !.n_processed = @ + 1]
       ELSE [held EXCEPT !.command = s.cmd, !.n_processed = 1,
                         !.reads_taken = reads_taken, !.writes_taken = writes_taken,
                         !.first_read = IF reads_taken > 0 THEN reads_popped + 1 ELSE 0,
                         !.first_write = IF writes_taken > 0 THEN writes_popped + 1 ELSE 0]

\* The inner while loop of communicate (248-270).  i is command_index + 1.
RECURSIVE CommandLoop(_, _, _, _, _)

\* Lines 267-270, then the next pass.
LoopEnd(self, commands, i, entry, n_reads_available, n_writes_available) ==
    IF entry.n_writes = 0 /\ entry.n_reads = 0
    THEN [self |-> self, commands |-> commands, raised |-> NoException]
    ELSE IF n_writes_available < 0 \/ n_reads_available < 0
    THEN [self |-> self, commands |-> commands, raised |-> AssertionError]
    ELSE CommandLoop(self, commands, i, n_reads_available, n_writes_available)

\* Lines 259-260: the command at command_index was processed and left s
\* behind; sent_commands.popleft() removes the first entry.
AfterProcess(self, commands, i, entry, n_reads_available, n_writes_available, s) ==
    LET commands2 == [commands EXCEPT ![entry.command] = Processed(@, self, s)]
        self2 == [self EXCEPT !.read_responses = s.read, !.write_responses = s.write]
    IN IF s.raised # NoException
       THEN [self |-> self2, commands |-> commands2, raised |-> s.raised]
       ELSE LoopEnd([self2 EXCEPT !.sent_commands = Tail(@)], commands2, i, entry,
                    n_reads_available, n_writes_available)

CommandLoop(self, commands, i, n_reads_available, n_writes_available) ==
    IF i > Len(self.sent_commands)
    THEN [self |-> self, commands |-> commands, raised |-> NoException]
    ELSE LET entry == self.sent_commands[i]
             enough_reads == Len(self.read_responses) >= entry.n_reads
             enough_writes == Len(self.write_responses) >= entry.n_writes
             nra == n_reads_available - entry.n_reads
             nwa == n_writes_available - entry.n_writes
         IN IF enough_reads /\ enough_writes
            THEN AfterProcess(self, commands, i, entry, nra, nwa,
                    process_responses(commands[entry.command].command,
                                      self.read_responses, self.write_responses, TRUE))
            ELSE LoopEnd(self, commands, i + 1, entry,
                         IF entry.n_reads # 0 THEN 0 ELSE nra,
                         IF entry.n_writes # 0 THEN 0 ELSE nwa)

\* The simulated slave: nothing accepted, nothing answered.  ar_seen, aw_seen
\* and w_seen are the payloads it has accepted on each channel, in order.
Dut ==
    [ar_acc |-> 0, aw_acc |-> 0, w_acc |-> 0, r_given |-> 0, b_given |-> 0,
     ar_seen |-> <<>>, aw_seen |-> <<>>, w_seen |-> <<>>]

\* The response codes the slave may present on rresp and on bresp.
PipeResps == {OKAY, SLVERR}

\* The outputs the slave may present in a cycle: any ready for a valid that
\* is driven in this cycle, and ready = 0 on a channel that is idle (the
\* handler does not look at the ready of an idle channel); a read response
\* only for an accepted read not yet answered, a write response only for a
\* write whose address and data were accepted; the k-th read is answered
\* with data k.  rresp is OKAY while no response is presented, bresp is OKAY
\* while no write response is presented.
DutOutputs ==
    {opt \in
        {[arready |-> ar, awready |-> aw, wready |-> w, bvalid |-> bv, bresp |-> br,
          rvalid |-> rv, rresp |-> rr, rdata |-> dut.r_given + 1] :
            ar \in {0} \cup {NextValue(comm.ar_valid, comm.ar_ready, comm.ar_addr,
                                       pipe_handler.unsent_read_addresses, 0).valid},
            aw \in {0} \cup {NextValue(comm.aw_valid, comm.aw_ready, comm.aw_addr,
                                       pipe_handler.unsent_write_addresses, 0).valid},
            w \in {0} \cup {NextValue(comm.w_valid, comm.w_ready, comm.w_data,
                                      pipe_handler.unsent_write_datas, 0).valid},
            bv \in IF dut.aw_acc > dut.b_given /\ dut.w_acc > dut.b_given
                   THEN {0, 1} ELSE {0},
            rv \in IF dut.ar_acc > dut.r_given THEN {0, 1} ELSE {0},
            rr \in PipeResps, br \in PipeResps} :
        /\ opt.rvalid = 0 /\ opt.bvalid = 0 => opt.rresp = OKAY
        /\ opt.bvalid = 0 => opt.bresp = OKAY}

\* handler.send(command), by the test or by a generator between two cycles.
PipeSend(cmd) ==
    /\ Len(pipe_commands) < MaxSent
    /\ pipe_handler' = NamedPipeHandler_send(pipe_handler, cmd, Len(pipe_commands) + 1)
    /\ pipe_commands' = Append(pipe_commands,
                               Sent(cmd, pipe_handler.n_read_beats, pipe_handler.n_write_beats))
    /\ UNCHANGED <<comm, dut, not_pipe>>

\* One pass of the while loop of communicate (184-270).
PipeCommunicate(r_ready, b_ready, opt) ==
    /\ comm.raised = NoException
    /\ comm.clk <= MaxCycles
    /\ \E rnd \in RandomWords :
       LET ar == NextValue(comm.ar_valid, comm.ar_ready, comm.ar_addr,
                           pipe_handler.unsent_read_addresses, rnd)
           aw == NextValue(comm.aw_valid, comm.aw_ready, comm.aw_addr,
                           pipe_handler.unsent_write_addresses, rnd)
           w == NextValue(comm.w_valid, comm.w_ready, comm.w_data,
                          pipe_handler.unsent_write_datas, rnd)
           self == RecordResponses(
                      [pipe_handler EXCEPT !.unsent_read_addresses = ar.unsent,
                                           !.unsent_write_addresses = aw.unsent,
                                           !.unsent_write_datas = w.unsent],
                      opt, r_ready, b_ready)
           l == CommandLoop(self, pipe_commands, 1,
                            Len(self.read_responses), Len(self.write_responses))
       IN /\ pipe_handler' = l.self
          /\ pipe_commands' = l.commands
          /\ comm' = [ar_valid |-> ar.valid, aw_valid |-> aw.valid, w_valid |-> w.valid,
                      ar_ready |-> opt.arready, aw_ready |-> opt.awready,
                      w_ready |-> opt.wready,
                      ar_addr |-> ar.value, aw_addr |-> aw.value, w_data |-> w.value,
                      r_ready |-> r_ready, b_ready |-> b_ready,
                      b_valid |-> opt.bvalid, b_resp |-> opt.bresp,
                      r_valid |-> opt.rvalid, r_resp |-> opt.rresp, r_data |-> opt.rdata,
                      appended_reads |-> SubSeq(self.read_responses,
                                                Len(pipe_handler.read_responses) + 1,
                                                Len(self.read_responses)),
                      appended_writes |-> SubSeq(self.write_responses,
                                                 Len(pipe_handler.write_responses) + 1,
                                                 Len(self.write_responses)),
                      clk |-> comm.clk + 1, raised |-> l.raised]
          /\ dut' = [ar_acc |-> dut.ar_acc + (IF ar.valid = 1 /\ opt.arready = 1 THEN 1 ELSE 0),
                     aw_acc |-> dut.aw_acc + (IF aw.valid = 1 /\ opt.awready = 1 THEN 1 ELSE 0),
                     w_acc |-> dut.w_acc + (IF w.valid = 1 /\ opt.wready = 1 THEN 1 ELSE 0),
                     r_given |-> dut.r_given + (IF opt.rvalid = 1 /\ r_ready = 1 THEN 1 ELSE 0),
                     b_given |-> dut.b_given + (IF opt.bvalid = 1 /\ b_ready = 1 THEN 1 ELSE 0),
                     ar_seen |-> IF ar.valid = 1 /\ opt.arready = 1
                                 THEN Append(dut.ar_seen, ar.value) ELSE dut.ar_seen,
                     aw_seen |-> IF aw.valid = 1 /\ opt.awready = 1
                                 THEN Append(dut.aw_seen, aw.value) ELSE dut.aw_seen,
                     w_seen |-> IF w.valid = 1 /\ opt.wready = 1
                                THEN Append(dut.w_seen, w.value) ELSE dut.w_seen]
    /\ UNCHANGED not_pipe

\* The commands sent to the NamedPipeHandler.
PipeSendSet ==
    {GetUnsignedsCommand(0, 2, FALSE), GetUnsignedCommand(2), SetUnsignedCommand(1, 0)}

-----------------------------------------------------------------------------
(* The specifications.  Each drives one part and leaves the others in      *)
(* their initial state.                                                    *)

CommsIdle ==
    /\ command = NoCommand
    /\ read_responses = <<>>
    /\ write_responses = <<>>
    /\ call = NoCall

\* start(aw_throttle, w_throttle, b_throttle, ar_throttle, r_throttle): the
\* five processors are forked on empty queues, each with its throttle.
Started(throttles) ==
    /\ handler = CocotbHandler
    /\ signals = [ch \in OutChannels |-> [valid |-> 0, data |-> None]]
    /\ proc = [ch \in Channels |-> [value |-> None, alive |-> TRUE]]
    /\ turn = 1
    /\ calls = <<>>
    /\ last = NoLast
    /\ wire = [ch \in Channels |-> <<>>]
    /\ throttle = throttles

\* __init__ with the default random_seed, start() with the default throttles.
CocotbIdle ==
    /\ Started([ch \in Channels |-> DefaultThrottle])
    /\ rng = Generators(None, <<1, 1>>)

PipeIdle ==
    /\ pipe_handler = NamedPipeHandler
    /\ comm = Communicate
    /\ pipe_commands = <<>>
    /\ dut = Dut

DictIdle ==
    /\ dict_handler = DictCommandHandler
    /\ ads = <<>>
    /\ dict_call = NoDictCall

\* SpecComms: comms.py driven directly.
InitComms ==
    /\ command \in CommandSet
    /\ \E rd \in SeqsUpTo(ResponseSet, MaxResponses) :
       \E wr \in SeqsUpTo(ResponseSet, MaxResponses - Len(rd)) :
          /\ read_responses = rd
          /\ write_responses = wr
    /\ call = NoCall
    /\ CocotbIdle /\ peer = "lawful"
    /\ DictIdle /\ PipeIdle

NextComms == \E resolve \in BOOLEAN : ProcessResponses(resolve)

SpecComms == InitComms /\ [][NextComms]_vars

\* SpecFuture: the Future of a command, set and read directly by callers and
\* through Command.resolve_future.
InitFuture ==
    /\ command \in CommandSet
    /\ read_responses \in SeqsUpTo(FutureResponseSet, MaxLength)
    /\ write_responses \in SeqsUpTo(FutureResponseSet, MaxLength)
    /\ call = NoCall
    /\ CocotbIdle /\ peer = "lawful"
    /\ DictIdle /\ PipeIdle

NextFuture ==
    \/ \E resolve \in BOOLEAN : ProcessResponses(resolve)
    \/ \E v \in {NoneV, ListV(<<7>>)} : FutureSetResult(v)
    \/ \E x \in {BadResponse, RanOut} : FutureSetException(x)
    \/ FutureResult

SpecFuture == InitFuture /\ [][NextFuture]_vars

\* SpecConstruct: AxiCommand objects are constructed.
InitConstruct == CommsIdle /\ CocotbIdle /\ peer = "lawful" /\ DictIdle /\ PipeIdle

NextConstruct == \E a \in ConstructArgs : Construct(a)

SpecConstruct == InitConstruct /\ [][NextConstruct]_vars

\* SpecCocotb: a started CocotbHandler with the default throttles, callers
\* and a lawful peer.
InitCocotb == CocotbIdle /\ peer = "lawful" /\ CommsIdle /\ DictIdle /\ PipeIdle

NextCocotb ==
    \/ \E ch \in OutChannels : process_queue_out(ch)
    \/ \E ch \in InChannels : process_queue_in(ch)
    \/ Tick
    \/ \E address \in CallAddresses, value \in CallValues : write(address, value)
    \/ \E address \in CallAddresses : read(address)
    \/ \E cmd \in SendSet : send(cmd)
    \/ \E c \in 1..Len(calls) : send_after_wait(c)
    \/ \E c \in 1..Len(calls) : wait_returns(c)
    \/ \E c \in 1..Len(calls) : send_returns(c)

SpecCocotb == InitCocotb /\ [][NextCocotb]_vars

\* SpecUnsolicited: the same handler with a free peer, which may present a
\* response nobody waits for.
InitUnsolicited == CocotbIdle /\ peer = "free" /\ CommsIdle /\ DictIdle /\ PipeIdle

NextUnsolicited ==
    \/ NextCocotb
    \/ \E ch \in InChannels : Terminated(ch)

SpecUnsolicited == InitUnsolicited /\ [][NextUnsolicited]_vars

\* SpecCalls: write() and read() calls against a peer that answers with any
\* of the four response codes.
InitCalls == CocotbIdle /\ peer = "coded" /\ CommsIdle /\ DictIdle /\ PipeIdle

NextCalls ==
    \/ \E ch \in OutChannels : process_queue_out(ch)
    \/ \E ch \in InChannels : process_queue_in(ch)
    \/ Tick
    \/ \E address \in CallAddresses, value \in CallValues : write(address, value)
    \/ \E address \in CallAddresses : read(address)
    \/ \E c \in 1..Len(calls) : wait_returns(c)

SpecCalls == InitCalls /\ [][NextCalls]_vars

\* SpecAdder: the handler against the adder slave, driven by write and read
\* calls and as AxiAdderComm drives it: add_numbers sends an
\* AddNumbersCommand, async_add_numbers calls write for intA and intB and
\* then read for intC.
InitAdder == CocotbIdle /\ peer = "adder" /\ CommsIdle /\ DictIdle /\ PipeIdle

NextAdder ==
    \/ \E ch \in OutChannels : process_queue_out(ch)
    \/ \E ch \in InChannels : process_queue_in(ch)
    \/ Tick
    \/ \E a \in AdderValues : write(INTA_ADDRESS, a)
    \/ \E b \in AdderValues : write(INTB_ADDRESS, b)
    \/ \E address \in AdderReads : read(address)
    \/ \E cmd \in AdderSendSet : send(cmd)
    \/ \E a, b \in AdderValues : async_add_numbers(a, b)
    \/ \E c \in 1..Len(calls) : async_add_numbers_read(c)
    \/ \E c \in 1..Len(calls) : async_add_numbers_returns(c)
    \/ \E c \in 1..Len(calls) : wait_returns(c)
    \/ \E c \in 1..Len(calls) : send_returns(c)

SpecAdder == InitAdder /\ [][NextAdder]_vars

\* SpecThrottle: the handler started with each throttle at 0.0 or at 1.0,
\* callers and a lawful peer.
InitThrottle ==
    /\ \E throttles \in [Channels -> {0, 100}] : Started(throttles)
    /\ rng = Generators(None, <<1, 1>>)
    /\ peer = "lawful" /\ CommsIdle /\ DictIdle /\ PipeIdle

SpecThrottle == InitThrottle /\ [][NextCocotb]_vars

\* SpecLive: the handler with the default throttles and a lawful peer, the
\* simulation running for ever.  The simulator goes on stepping the clock
\* and the coroutines; each throttle draw passes with probability 0.8
\* whatever happened before, so a transfer that could happen in infinitely
\* many cycles (the channel holds a payload, or the peer has a request to
\* answer) does happen, the peer being ready for a payload presented, and
\* presenting the answer it owes, in one of the cycles in which the draw
\* passes.  The three weak fairness conditions are the simulator's: the
\* clock and the four processors keep running, and a coroutine whose wait
\* is over is resumed.  The one for the return of send is written out as
\* "infinitely often no send can return, or infinitely often a send
\* returns", which is WF_vars(\E c : send_returns(c)), a send being able to
\* return exactly when it awaits handles that are all set.
InitLive == CocotbIdle /\ peer = "fair" /\ CommsIdle /\ DictIdle /\ PipeIdle

SpecLive ==
    /\ InitLive
    /\ [][NextCocotb]_vars
    /\ WF_vars(\/ \E ch \in OutChannels : process_queue_out(ch)
               \/ \E ch \in InChannels : process_queue_in(ch)
               \/ Tick)
    /\ WF_vars(\E c \in 1..Len(calls) : send_after_wait(c) \/ wait_returns(c))
    /\ \/ []<>(~(\E c \in 1..Len(calls) :
                    /\ calls[c].kind = "send" /\ calls[c].pc = "await"
                    /\ AllSet(handler, calls[c])))
       \/ []<><<\E c \in 1..Len(calls) : send_returns(c)>>_vars
    /\ \A ch \in OutChannels :
          SF_vars(process_queue_out(ch) /\ Len(wire'[ch]) > Len(wire[ch]))
    /\ \A ch \in InChannels :
          SF_vars(process_queue_in(ch) /\ Len(wire'[ch]) > Len(wire[ch]))

\* SpecStreams: the throttle draws of two runs of a handler constructed with
\* the same random_seed (None or an integer) and started with the default
\* throttles; the processors of a run draw in any order, and the random
\* module starts a run in any state.
InitStreams ==
    /\ Started([ch \in Channels |-> DefaultThrottle])
    /\ \E random_seed \in {None, 0}, random \in [{1, 2} -> {1, 2}] :
          rng = Generators(random_seed, random)
    /\ peer = "lawful" /\ CommsIdle /\ DictIdle /\ PipeIdle

NextStreams == \E run \in {1, 2}, ch \in Channels : rnd_random(run, ch)

SpecStreams == InitStreams /\ [][NextStreams]_vars

\* SpecDict: a DictCommandHandler driven by a test: commands are sent, the
\* dicts are made and the answers of a simulation are consumed.
InitDict == DictIdle /\ CommsIdle /\ CocotbIdle /\ peer = "lawful" /\ PipeIdle

NextDict ==
    \/ \E cmd \in DictSendSet : DictSend(cmd)
    \/ DictMakeCommandDicts
    \/ \E s2m \in [1..Len(ads) -> S2MSet] : DictConsumeResponseDicts(s2m)

SpecDict == InitDict /\ [][NextDict]_vars

\* SpecResponses: axi_dicts_to_axi_responses applied to up to MaxMaps cycle
\* maps: what a master drove in a cycle (nothing, with bready or rready low,
\* a read beat, a write beat) merged with what the slave answered (S2MSet, a
\* write address or write data not accepted, an rvalid that is None).
InitResponses ==
    /\ dict_handler = DictCommandHandler
    /\ dict_call = NoDictCall
    /\ \E n \in 0..MaxMaps :
       \E m2s \in [1..n -> {make_axi4lite_m2s_dict(1, 1), make_axi4lite_m2s_dict(0, 1),
                            make_axi4lite_m2s_dict(1, 0),
                            BeatDict(GetUnsignedCommand(1), 0),
                            BeatDict(SetUnsignedCommand(1, 0), 0)}] :
       \E s2m \in [1..n -> S2MSet \cup
                               {[make_empty_axi4lite_s2m_dict EXCEPT !.awready = 0],
                                [make_empty_axi4lite_s2m_dict EXCEPT !.wready = 0],
                                [make_empty_axi4lite_s2m_dict EXCEPT !.rvalid = None]}] :
          ads = MergedDicts(m2s, s2m)
    /\ CommsIdle /\ CocotbIdle /\ peer = "lawful" /\ PipeIdle

NextResponses == AxiDictsToAxiResponses

SpecResponses == InitResponses /\ [][NextResponses]_vars

\* SpecPipe: a NamedPipeHandler whose communicate runs against a simulated
\* slave while commands are sent.
InitPipe == PipeIdle /\ DictIdle /\ CommsIdle /\ CocotbIdle /\ peer = "lawful"

NextPipe ==
    \/ \E cmd \in PipeSendSet : PipeSend(cmd)
    \/ \E r_ready \in {0, 1}, b_ready \in {0, 1}, opt \in DutOutputs :
          PipeCommunicate(r_ready, b_ready, opt)

SpecPipe == InitPipe /\ [][NextPipe]_vars

-----------------------------------------------------------------------------
(* Properties of comms.py (SpecFuture, SpecComms).                         *)

Resolved(f) == f.state # UNRESOLVED

\* C8: a Future moves only from UNRESOLVED to OKAY or to ERROR.  Once it is
\* resolved no operation changes its state or its stored value, and a
\* further set_result, set_exception or resolving process_responses fails
\* its assertion.  result() raises while UNRESOLVED, raises the stored
\* exception in ERROR and returns the stored value in OKAY.
C8_FutureResolvesOnce ==
    /\ command.future.state \in {UNRESOLVED, OKAY_STATE, ERROR_STATE}
    /\ call.op # "none" /\ Resolved(call.before) => command.future = call.before
    /\ call.op # "none" /\ ~Resolved(call.before) /\ Resolved(command.future) =>
          \/ /\ command.future.state = OKAY_STATE
             /\ command.future.exception_value = NoException
          \/ /\ command.future.state = ERROR_STATE
             /\ command.future.exception_value # NoException
             /\ command.future.result_value = NoneV
    /\ call.op \in {"set_result", "set_exception"} =>
          IF Resolved(call.before) THEN call.raised = AssertionError
          ELSE call.raised = NoException /\ Resolved(command.future)
    /\ call.op = "set_result" /\ ~Resolved(call.before) =>
          command.future.state = OKAY_STATE /\ command.future.result_value = call.r
    /\ call.op = "set_exception" /\ ~Resolved(call.before) =>
          command.future.state = ERROR_STATE /\ command.future.exception_value = call.e
    /\ call.op = "process_responses" /\ call.resolve /\ Resolved(call.before) =>
          call.raised = AssertionError
    /\ call.op = "result" =>
          CASE call.before.state = UNRESOLVED ->
                  call.raised \notin {NoException, AssertionError}
            [] call.before.state = ERROR_STATE ->
                  call.raised = call.before.exception_value
            [] call.before.state = OKAY_STATE ->
                  call.raised = NoException /\ call.r = call.before.result_value

\* A set_result on a Future that holds an error, rejected.
C8_Witness ==
    /\ call.op = "set_result"
    /\ call.before.state = ERROR_STATE
    /\ call.raised = AssertionError
    /\ command.future.exception_value = call.before.exception_value

\* The sum of the lengths of the first k responses of q.
RECURSIVE LengthSum(_, _)
LengthSum(q, k) == IF k = 0 THEN 0 ELSE LengthSum(q, k - 1) + q[k].length

\* The prefixes of q that cover `length` beats.
Covers(q, length) == {k \in 0..Len(q) : LengthSum(q, k) >= length}

\* C10: AxiCommand.process_responses leaves the FIFO of the other direction
\* unchanged, removes responses from the front of its own FIFO only, and, when
\* the FIFO holds enough responses to cover the command's length, removes
\* exactly the shortest prefix whose lengths sum to at least that length.
C10_ConsumesShortestPrefix ==
    call.op = "process_responses" /\ ~IsCombined(command) =>
       LET isread == command.readorwrite = READ_TYPE
           own == IF isread THEN call.read ELSE call.write
           own2 == IF isread THEN read_responses ELSE write_responses
           other == IF isread THEN call.write ELSE call.read
           other2 == IF isread THEN write_responses ELSE read_responses
           k == Len(own) - Len(own2)
       IN /\ other2 = other
          /\ k >= 0
          /\ own2 = SubSeq(own, k + 1, Len(own))
          /\ Covers(own, command.length) # {} =>
                /\ k \in Covers(own, command.length)
                /\ \A j \in Covers(own, command.length) : k <= j

\* A read that took one of two read responses, with a write response waiting.
C10_Witness ==
    /\ call.op = "process_responses"
    /\ ~IsCombined(command)
    /\ command.readorwrite = READ_TYPE
    /\ Len(call.read) = 2
    /\ call.read[1] # call.read[2]
    /\ read_responses = Tail(call.read)
    /\ write_responses # <<>>

\* The failure a consumed response j of q brings to a command of `length`
\* beats, if any.
FailureAt(q, length, j) ==
    IF LengthSum(q, j) > length THEN LengthMismatch
    ELSE IF q[j].resp # OKAY THEN BadResponse
    ELSE NoException

\* The first failure among the first k responses of q.
FirstFailure(q, length, k) ==
    LET failing == {j \in 1..k : FailureAt(q, length, j) # NoException}
    IN IF failing = {} THEN NoException
       ELSE FailureAt(q, length, CHOOSE j \in failing : \A i \in failing : j <= i)

\* The FIFO an AxiCommand consumes from, before and after the last call.
OwnBefore == IF command.readorwrite = READ_TYPE THEN call.read ELSE call.write
OwnAfter == IF command.readorwrite = READ_TYPE THEN read_responses ELSE write_responses
Consumed_k == Len(OwnBefore) - Len(OwnAfter)

\* A call of AxiCommand.process_responses itself (not of a subclass).
AxiCall == call.op = "process_responses" /\ command.cls = "AxiCommand"

\* C11: when AxiCommand.process_responses has consumed a response with
\* resp != OKAY and returns, the error it returns (and stores, when asked to
\* resolve) is that of the first failure among the responses it consumed, and
\* it has consumed the responses of all beats of the command.
C11_FirstFailureWins ==
    AxiCall /\ call.raised = NoException
    /\ (\E j \in 1..Consumed_k : OwnBefore[j].resp # OKAY) =>
       /\ call.e = FirstFailure(OwnBefore, command.length, Consumed_k)
       /\ Consumed_k \in Covers(OwnBefore, command.length)
       /\ call.resolve => command.future.exception_value = call.e

\* C12: AxiCommand.process_responses returns a data list of exactly `length`
\* elements whatever the response stream is.
C12_DataHasCommandLength ==
    AxiCall =>
       /\ call.r.k = "list"
       /\ Len(call.r.v) = command.length

\* C13: when the FIFO holds too few responses to cover the command's length,
\* AxiCommand.process_responses empties it, returns the 'Ran out of
\* responses' error and, when asked to resolve an unresolved Future, stores
\* that error in it.
C13_RanOutIsReported ==
    AxiCall /\ Covers(OwnBefore, command.length) = {} =>
       /\ OwnAfter = <<>>
       /\ call.e = RanOut
       /\ ~(call.resolve /\ Resolved(call.before)) => call.raised = NoException
       /\ call.resolve /\ ~Resolved(call.before) =>
             /\ command.future.state = ERROR_STATE
             /\ command.future.exception_value = RanOut

\* The data of the first k responses of q, concatenated.
RECURSIVE DataOf(_, _)
DataOf(q, k) == IF k = 0 THEN <<>> ELSE DataOf(q, k - 1) \o q[k].data

\* C14: when the lengths of the responses consumed sum to more than the
\* command's length, AxiCommand.process_responses returns the length-mismatch
\* error (and stores it, when asked to resolve an unresolved Future) with the
\* first `length` data elements only.
C14_OverrunIsTruncated ==
    AxiCall /\ LengthSum(OwnBefore, Consumed_k) > command.length =>
       /\ call.e = LengthMismatch
       /\ call.r = ListV(SubSeq(DataOf(OwnBefore, Consumed_k), 1, command.length))
       /\ ~(call.resolve /\ Resolved(call.before)) => call.raised = NoException
       /\ call.resolve /\ ~Resolved(call.before) =>
             /\ command.future.state = ERROR_STATE
             /\ command.future.exception_value = LengthMismatch

\* A one-beat read answered by a two-beat response: the second datum is dropped.
C14_Witness ==
    /\ AxiCall
    /\ command.readorwrite = READ_TYPE
    /\ command.length = 1
    /\ call.read # <<>>
    /\ call.read[1] = AxiResponse(2, <<0, 1>>, OKAY)
    /\ call.e = LengthMismatch
    /\ call.r = ListV(<<0>>)
    /\ call.resolve
    /\ command.future.exception_value = LengthMismatch

\* q without its shortest prefix that covers `length` beats.
AfterCover(q, length) ==
    LET c == Covers(q, length)
    IN IF c = {} THEN <<>>
       ELSE SubSeq(q, (CHOOSE k \in c : \A j \in c : k <= j) + 1, Len(q))

\* The two FIFOs rd, wr after the first k of `commands` took their responses
\* from the front, one command after the other.
RECURSIVE AfterSubCommands(_, _, _, _)
AfterSubCommands(commands, k, rd, wr) ==
    IF k = 0 THEN [read |-> rd, write |-> wr]
    ELSE LET a == AfterSubCommands(commands, k - 1, rd, wr)
             c == commands[k]
         IN IF IsFakeWait(c) THEN a
            ELSE IF c.readorwrite = READ_TYPE
            THEN [read |-> AfterCover(a.read, c.length), write |-> a.write]
            ELSE [read |-> a.read, write |-> AfterCover(a.write, c.length)]

\* What sub-command k returns on the responses that follow those of the
\* sub-commands before it.
SubOutcome(k) ==
    LET a == AfterSubCommands(command.commands, k - 1, call.read, call.write)
    IN process_responses(command.commands[k], a.read, a.write, FALSE)

-----------------------------------------------------------------------------
(* Properties of CocotbHandler.write, read and send of a FakeWaitCommand.   *)

\* The Event a write() or read() call waits for.
EventOf(co) == handler.events[(co.write_events \o co.read_events)[1]]

\* C17: a write() or read() call that has ended has returned the data of its
\* Event if the response code of the Event is OKAY and has raised
\* AxiResponseException for every other code; the step in which a call ends
\* changes neither the handler (its queues, its Events) nor any other call.
C17_Returned ==
    \A c \in 1..Len(calls) :
       calls[c].kind \in {"write", "read"} /\ calls[c].pc = "done" =>
          IF EventOf(calls[c]).resp = OKAY
          THEN /\ calls[c].raised = NoException
               /\ calls[c].ret = IntV(EventOf(calls[c]).data)
          ELSE calls[c].raised = AxiResponseException

C17_Ending ==
    \A c \in 1..Len(calls) :
       calls[c].kind \in {"write", "read"} /\ calls[c].pc # "done"
       /\ Len(calls') = Len(calls) /\ calls'[c].pc = "done" =>
          /\ handler' = handler
          /\ \A d \in 1..Len(calls) : d # c => calls'[d] = calls[d]

C17_ReturnsDataOrRaises == [](C17_Returned) /\ [][C17_Ending]_vars

\* A call that raised on EXOKAY while another call still waits for its Event.
C17_Witness ==
    \E c, d \in 1..Len(calls) :
       /\ calls[c].kind \in {"write", "read"}
       /\ calls[c].pc = "done"
       /\ EventOf(calls[c]).resp = EXOKAY
       /\ calls[c].raised = AxiResponseException
       /\ calls[d].pc = "await"
       /\ ~EventOf(calls[d]).fired

\* C18: a send() of a FakeWaitCommand submits no beat (it holds no
\* completion handle), is still waiting while rising edges are left to wait
\* for, and ends by returning normally.
C18_FakeWaitReturns ==
    \A c \in 1..Len(calls) :
       calls[c].kind = "send" /\ IsFakeWait(calls[c].command) =>
          /\ calls[c].write_events = <<>>
          /\ calls[c].read_events = <<>>
          /\ calls[c].edges > 0 => calls[c].pc = "edges"
          /\ calls[c].pc = "done" => calls[c].raised = NoException

-----------------------------------------------------------------------------
(* Properties of the adder example (SpecAdder).                            *)

\* The write (address, value) and the read (address) submitted with Event e.
WriteOf(e) ==
    LET i == CHOOSE i \in 1..Len(handler.b_hist) : handler.b_hist[i].item = e
    IN [address |-> handler.aw_hist[i].item, value |-> handler.w_hist[i].item]
ReadOf(e) ==
    LET i == CHOOSE i \in 1..Len(handler.r_hist) : handler.r_hist[i].item = e
    IN [address |-> handler.ar_hist[i].item]

\* C19: against the adder slave, a send() of AddNumbersCommand(a, b) that has
\* ended has returned a + b and has resolved the command's Result to a + b.
C19_AddNumbersGivesSum ==
    \A c \in 1..Len(calls) :
       calls[c].kind = "send" /\ calls[c].pc = "done" =>
          LET a == calls[c].command.commands[1].data[1]
              b == calls[c].command.commands[2].data[1]
          IN /\ calls[c].raised = NoException
             /\ calls[c].ret = IntV(a + b)
             /\ calls[c].command.future.state = OKAY_STATE
             /\ calls[c].command.future.result_value = IntV(a + b)

\* Call d is a write() that returned normally before the read() call c was
\* started, and no write to the same address was submitted after it until c
\* ended.
WrittenBefore(d, c) ==
    /\ calls[d].kind = "write" /\ calls[d].pc = "done" /\ calls[d].raised = NoException
    /\ calls[d].submits < calls[c].read_events[1]
    /\ WriteOf(calls[d].write_events[1]).address = ReadOf(calls[c].read_events[1]).address
    /\ \A i \in 1..Len(handler.aw_hist) :
          /\ handler.aw_hist[i].item = WriteOf(calls[d].write_events[1]).address
          /\ handler.aw_hist[i].submit > calls[d].write_events[1]
          => handler.aw_hist[i].submit > calls[c].submits

\* C20: against the adder slave, a read() that has ended, started after a
\* write() to its address had returned with OKAY and with no other write to
\* that address in between, has returned the value written; and an
\* async_add_numbers(a, b) that has ended, with no write submitted by others
\* after its own until it ended, has returned a + b.
C20_ReadAfterWrite ==
    /\ \A c, d \in 1..Len(calls) :
          calls[c].kind = "read" /\ calls[c].pc = "done" /\ WrittenBefore(d, c) =>
             /\ calls[c].raised = NoException
             /\ calls[c].ret = IntV(WriteOf(calls[d].write_events[1]).value)
    /\ \A c \in 1..Len(calls) :
          /\ calls[c].kind = "async_add_numbers" /\ calls[c].pc = "done"
          /\ \A i \in 1..Len(handler.aw_hist) :
                handler.aw_hist[i].submit > calls[c].write_events[2]
                => handler.aw_hist[i].submit > calls[c].submits
          =>
             /\ calls[c].raised = NoException
             /\ calls[c].ret = IntV(WriteOf(calls[c].write_events[1]).value
                                    + WriteOf(calls[c].write_events[2]).value)

\* An async_add_numbers(1, 2) that returned 3.
C20_Witness ==
    \E c \in 1..Len(calls) :
       /\ calls[c].kind = "async_add_numbers"
       /\ calls[c].pc = "done"
       /\ WriteOf(calls[c].write_events[1]) = [address |-> INTA_ADDRESS, value |-> 1]
       /\ WriteOf(calls[c].write_events[2]) = [address |-> INTB_ADDRESS, value |-> 2]
       /\ calls[c].ret = IntV(3)
       /\ wire["b"] = <<calls[c].write_events[1], calls[c].write_events[2]>>

\* A read of intA that returned the 2 a write() that had ended before wrote.
C20_ReadWitness ==
    \E c, d \in 1..Len(calls) :
       /\ calls[c].kind = "read" /\ calls[c].pc = "done"
       /\ WrittenBefore(d, c)
       /\ calls[c].ret = IntV(2)

-----------------------------------------------------------------------------
(* Properties of the decomposition of commands into beats.                 *)

\* The address of beat i of an AxiCommand: the same address, or one word
\* further per beat, a word being one address or four.
StatedAddress(ac, i) ==
    IF ac.constant_address THEN ac.start_address
    ELSE IF ac.address_by_word THEN ac.start_address + i
    ELSE ac.start_address + 4 * i

\* The beats of a list of AxiCommand / FakeWaitCommand objects, in order.
RECURSIVE BeatsOf(_, _)
BeatsOf(axi_commands, i) ==
    IF i > Len(axi_commands) THEN <<>>
    ELSE LET ac == axi_commands[i]
         IN (IF IsFakeWait(ac) THEN <<>>
             ELSE [n \in 1..ac.length |->
                      [readorwrite |-> ac.readorwrite, address |-> StatedAddress(ac, n - 1)]])
            \o BeatsOf(axi_commands, i + 1)

\* The beats a list of master-to-slave dicts asks for, in order.
RECURSIVE DictBeats(_, _)
DictBeats(ds, i) ==
    IF i > Len(ds) THEN <<>>
    ELSE (IF ds[i].arvalid = 1
          THEN <<[readorwrite |-> READ_TYPE, address |-> ds[i].araddr]>>
          ELSE IF ds[i].awvalid = 1
          THEN <<[readorwrite |-> WRITE_TYPE, address |-> ds[i].awaddr]>>
          ELSE <<>>)
         \o DictBeats(ds, i + 1)

\* C16: the dicts make_command_dicts returns ask, for every AxiCommand sent,
\* for `length` beats in ascending beat index, beat i at start_address when
\* constant_address is set, else at start_address + i when address_by_word is
\* set and at start_address + 4*i when it is not.
C16_BeatAddresses ==
    dict_call.op = "make_command_dicts" =>
       DictBeats(ads, 1)
          = BeatsOf(get_axi_commands_of(dict_call.before.unsent_commands, 1), 1)

-----------------------------------------------------------------------------
(* Properties of cocotb_handler.py (SpecCocotb, SpecUnsolicited).          *)

\* The history of everything appended to a channel's queue.
HistOf(self, ch) ==
    CASE ch = "aw" -> self.aw_hist
      [] ch = "w" -> self.w_hist
      [] ch = "ar" -> self.ar_hist
      [] ch = "b" -> self.b_hist
      [] ch = "r" -> self.r_hist

\* The transfers seen on ch are the first entries appended to its queue.
TransfersArePrefix(ch) ==
    /\ Len(wire[ch]) <= Len(HistOf(handler, ch))
    /\ \A i \in 1..Len(wire[ch]) : wire[ch][i] = HistOf(handler, ch)[i].item

\* C1: on AW, W and AR, while a payload is held that was driven with
\* valid = 1 and has not been accepted, every step leaves valid at 1 and the
\* payload unchanged: the throttle never takes valid back.
C1_ValidHeldUntilAccepted ==
    [][\A ch \in OutChannels :
          proc[ch].value # None /\ signals[ch].valid = 1 =>
             signals'[ch].valid = 1 /\ signals'[ch].data = signals[ch].data]_vars

\* C2: on B and on R the handles are resolved in the order they were
\* appended: the handles resolved so far are the first ones appended to the
\* channel's queue, in that order, and exactly those are set.
C2_HandlesResolveInOrder ==
    \A ch \in InChannels :
       /\ TransfersArePrefix(ch)
       /\ \A i \in 1..Len(HistOf(handler, ch)) :
             handler.events[HistOf(handler, ch)[i].item].fired <=> i <= Len(wire[ch])

\* Of two writes and a later read, the first write and the read are answered
\* while the second write is not: FIFO on B, no order between B and R.
C2_Witness ==
    /\ Len(handler.b_hist) = 2 /\ Len(handler.r_hist) = 1
    /\ handler.b_hist[2].item < handler.r_hist[1].item
    /\ handler.events[handler.b_hist[1].item].fired
    /\ ~handler.events[handler.b_hist[2].item].fired
    /\ handler.events[handler.r_hist[1].item].fired

\* C3: on AW, W and AR the payloads transferred (valid = 1 and ready = 1)
\* are at every moment a prefix of the values appended to the channel's queue.
C3_TransfersArePrefixOfAppended == \A ch \in OutChannels : TransfersArePrefix(ch)

\* Two different values were appended to W, the first is transferred and
\* the second is held back by the throttle.
C3_Witness ==
    /\ Len(handler.w_hist) = 2
    /\ handler.w_hist[1].item # handler.w_hist[2].item
    /\ wire["w"] = <<handler.w_hist[1].item>>
    /\ proc["w"].value = handler.w_hist[2].item
    /\ signals["w"].valid = 0

\* What process_queue_out did in its last cycle: it moves on from the payload
\* it held exactly when it drove valid = 1 and sampled ready = 1.
OutMovesOnTransfer ==
    last.ch \in OutChannels /\ last.held # None =>
       /\ signals[last.ch].valid = last.valid
       /\ proc[last.ch].value = None <=> (last.valid = 1 /\ last.ready = 1)

\* The handle process_queue_in resolved in its last cycle is set.
ResolvedIsSet == last.event # 0 => handler.events[last.event].fired

\* C4 as stated: process_queue_out moves on iff valid = 1 and ready = 1, and
\* process_queue_in resolves a handle iff it sampled valid = 1 and drove
\* ready = 1.
C4_AsStated ==
    /\ OutMovesOnTransfer
    /\ last.ch \in InChannels =>
          /\ ResolvedIsSet
          /\ last.event # 0 <=> (last.valid = 1 /\ last.ready = 1)

\* C4, amended: process_queue_out moves on iff valid = 1 and ready = 1;
\* process_queue_in resolves a handle iff it sampled valid = 1, drove
\* ready = 1 and a handle was pending; with valid = 1, ready = 1 and no handle
\* pending it resolves nothing and raises.
C4_TransferOnValidAndReady ==
    /\ OutMovesOnTransfer
    /\ last.ch \in InChannels =>
          /\ ResolvedIsSet
          /\ last.event # 0 <=> (last.valid = 1 /\ last.ready = 1 /\ last.pending > 0)
          /\ last.valid = 1 /\ last.ready = 1 /\ last.pending = 0 =>
                last.raised = IndexError /\ ~proc[last.ch].alive

\* R presented a response while ready was 0 and a handle was pending: the
\* handle stays unset.
C4_Witness ==
    /\ last.ch = "r"
    /\ last.valid = 1 /\ last.ready = 0
    /\ last.pending = 1
    /\ ~handler.events[handler.r_queue[1]].fired

\* C5: the k-th entries appended to aw_queue, w_queue and b_queue come from
\* the same submit_write call, the k-th entries appended to ar_queue and
\* r_queue from the same submit_read call, and the numbers of entries ever
\* appended to aw_queue, w_queue and b_queue are equal.
C5_QueuesCorrelated ==
    /\ Len(handler.aw_hist) = Len(handler.w_hist)
    /\ Len(handler.w_hist) = Len(handler.b_hist)
    /\ \A k \in 1..Len(handler.b_hist) :
          /\ handler.aw_hist[k].submit = handler.b_hist[k].submit
          /\ handler.w_hist[k].submit = handler.b_hist[k].submit
    /\ Len(handler.ar_hist) = Len(handler.r_hist)
    /\ \A k \in 1..Len(handler.r_hist) :
          handler.ar_hist[k].submit = handler.r_hist[k].submit

\* A write() call submitted between the two write beats of a send.
C5_Witness ==
    /\ Len(calls) = 2
    /\ calls[1].kind = "send" /\ calls[1].write_events = <<1, 3>>
    /\ calls[2].kind = "write" /\ calls[2].write_events = <<2>>
    /\ Len(handler.b_hist) = 3

\* C6: a send that has called process_responses or whose command's Future is
\* resolved has decomposed all its commands and has every one of its handles
\* set, and the responses it handed over are those of its write handles and
\* of its read handles, each in the order the beats were submitted.
C6_SendWaitsForAllHandles ==
    \A c \in 1..Len(calls) :
       LET co == calls[c]
       IN co.kind = "send" /\ ~IsFakeWait(co.command) =>
             /\ co.pc # "done" => co.command.future.state = UNRESOLVED
             /\ co.pc = "done" =>
                   /\ co.idx > Len(co.acs)
                   /\ Len(co.write_events) + Len(co.read_events) = Beats(co.acs, 1)
                   /\ AllSetWritesOnly(handler, co)
                   /\ \A i \in 1..Len(co.read_events) : handler.events[co.read_events[i]].fired
                   /\ \A i \in 1..(Len(co.write_events) - 1) :
                         co.write_events[i] < co.write_events[i + 1]
                   /\ \A i \in 1..(Len(co.read_events) - 1) :
                         co.read_events[i] < co.read_events[i + 1]
                   /\ co.write_responses = EventResponses(handler, co.write_events)
                   /\ co.read_responses = EventResponses(handler, co.read_events)

\* A send of two writes and a read has returned with its Future resolved.
C6_Witness ==
    \E c \in 1..Len(calls) :
       /\ calls[c].kind = "send" /\ calls[c].pc = "done"
       /\ Len(calls[c].write_events) = 2 /\ Len(calls[c].read_events) = 1
       /\ calls[c].command.future.state = OKAY_STATE

-----------------------------------------------------------------------------
(* Properties of the DictCommandHandler (SpecDict).                        *)

\* C9: process_responses is invoked at most once on each command submitted
\* to a DictCommandHandler, and never on a command whose Future is already
\* resolved, so the Future's assertion is never reached.
C9_ProcessedAtMostOnce ==
    /\ \A i \in 1..Len(dict_handler.n_processed) : dict_handler.n_processed[i] <= 1
    /\ dict_call.op = "process_responses" =>
          \A i \in 1..Len(dict_call.before.sent_commands) :
             dict_handler.n_processed[i] > dict_call.before.n_processed[i] =>
                ~Resolved(dict_call.before.sent_commands[i].future)

-----------------------------------------------------------------------------
(* Properties of the NamedPipeHandler (SpecPipe).                          *)

\* C7: responses are attributed in submission order: the responses a
\* command's process_responses consumes start with the response that answers
\* the command's own first read beat (write beat), never with a response
\* that answers a beat of a command sent before it.
C7_ResponsesAttributedInOrder ==
    \A c \in 1..Len(pipe_commands) :
       LET held == pipe_commands[c]
       IN held.n_processed > 0 =>
             /\ held.reads_taken > 0 => held.first_read = held.read_from + 1
             /\ held.writes_taken > 0 => held.first_write = held.write_from + 1

-----------------------------------------------------------------------------
(* Properties of the throttles (SpecThrottle).                             *)

\* The step is the cycle of the processor of channel ch.
CycleOf(ch) == Turn(ch) /\ proc[ch].alive /\ turn' = turn + 1 /\ last'.ch = ch

\* C21 as stated: with throttle 1.0 and ready at 1, every payload that
\* is in the output queue when the cycle starts is transferred in that cycle.
C21_AsStated ==
    [][\A ch \in OutChannels :
          (CycleOf(ch) /\ throttle[ch] = 100 /\ proc[ch].value = None /\ last'.ready = 1)
          => Len(wire'[ch]) = Len(wire[ch]) + Len(QueueOf(handler, ch))]_vars

\* C21: with throttle 1.0, in a cycle in which the peer's ready is 1 and
\* no payload is held from an earlier cycle, the payload at the head of an
\* output queue is driven with valid = 1 and transferred in that cycle, it
\* and no other, the payloads behind it staying queued; and with throttle
\* 1.0 an input channel drives ready = 1 on every cycle.
C21_HeadTransferredAtOnce ==
    /\ [](\A ch \in InChannels : (last.ch = ch /\ throttle[ch] = 100) => last.ready = 1)
    /\ [][\A ch \in OutChannels :
             (CycleOf(ch) /\ throttle[ch] = 100 /\ proc[ch].value = None
                /\ QueueOf(handler, ch) # <<>> /\ last'.ready = 1)
             => /\ signals'[ch] = [valid |-> 1, data |-> Head(QueueOf(handler, ch))]
                /\ wire'[ch] = Append(wire[ch], Head(QueueOf(handler, ch)))
                /\ QueueOf(handler', ch) = Tail(QueueOf(handler, ch))
                /\ proc'[ch].value = None]_vars

\* The head of a queue of two payloads has been transferred in the first cycle
\* of a channel of throttle 1.0, the second payload is still queued; and an
\* input channel of throttle 1.0 has driven ready.
C21_Witness ==
    \E ch \in OutChannels :
       /\ throttle[ch] = 100 /\ throttle["b"] = 100
       /\ last.ch = "b" /\ last.ready = 1
       /\ wire[ch] # <<>> /\ wire[ch][1] = HistOf(handler, ch)[1].item
       /\ QueueOf(handler, ch) # <<>>

\* C22: a channel of throttle 0.0 never drives valid = 1 (an output
\* channel) or ready = 1 (an input channel), nothing is transferred on it,
\* no handle of its queue is set, and no call ends that submitted a beat to
\* it or, the peer answering accepted requests only, to a channel its answer
\* depends on.
C22_ThrottleZeroBlocks ==
    /\ \A ch \in Channels :
          throttle[ch] = 0 =>
             /\ wire[ch] = <<>>
             /\ ch \in OutChannels => signals[ch].valid = 0
             /\ (last.ch = ch /\ ch \in OutChannels) => last.valid = 0
             /\ (last.ch = ch /\ ch \in InChannels) => last.ready = 0
             /\ ch \in InChannels =>
                   \A i \in 1..Len(HistOf(handler, ch)) :
                      ~handler.events[HistOf(handler, ch)[i].item].fired
    /\ \A c \in 1..Len(calls) :
          calls[c].pc = "done" =>
             /\ calls[c].write_events # <<>> =>
                   \A ch \in {"aw", "w", "b"} : throttle[ch] # 0
             /\ calls[c].read_events # <<>> =>
                   \A ch \in {"ar", "r"} : throttle[ch] # 0

\* A write whose address and data were accepted and whose response the peer
\* presents, while the B channel of throttle 0.0 keeps ready at 0.
C22_Witness ==
    /\ throttle["b"] = 0
    /\ wire["aw"] # <<>> /\ wire["w"] # <<>>
    /\ last.ch = "b" /\ last.valid = 1 /\ last.ready = 0
    /\ \E c \in 1..Len(calls) : calls[c].pc = "await" /\ calls[c].write_events # <<>>

-----------------------------------------------------------------------------
(* Properties of a response nobody waits for (SpecUnsolicited).            *)

-----------------------------------------------------------------------------
(* Properties of the commands of one handler (SpecDict).                   *)

\* The process_responses of entry i of sent_commands has failed: its Future
\* holds an error, or the call ended without resolving it.
CommandFailed(self, i) ==
    /\ self.n_processed[i] > 0
    /\ self.sent_commands[i].future.state # OKAY_STATE

\* C24: after the first process_responses of a DictCommandHandler, a
\* command that follows a failed command (bad response code, too few or too
\* many responses) has been processed as well and its Result is resolved.
C24_ErrorStaysWithCommand ==
    (/\ dict_call.op = "process_responses"
     /\ \A i \in 1..Len(dict_call.before.n_processed) : dict_call.before.n_processed[i] = 0)
    => \A i, j \in 1..Len(dict_handler.sent_commands) :
          (i < j /\ CommandFailed(dict_handler, i)) =>
             /\ dict_handler.n_processed[j] = 1
             /\ Resolved(dict_handler.sent_commands[j].future)

-----------------------------------------------------------------------------
(* Properties of AxiCommand.__init__ (SpecConstruct).                      *)

\* How far start_address lies below 2^32 - 1 (negative above it), capped at 2^16.
Headroom(start_address) ==
    IF start_address.hi < 65535 THEN 65536
    ELSE (65535 - start_address.hi) * 65536 + (65535 - start_address.lo)

\* The four conditions on the arguments of a construction.
WellFormed(a) ==
    /\ a.readorwrite = WRITE_TYPE => (a.data # NoneV /\ Len(a.data.v) = a.length)
    /\ a.readorwrite = READ_TYPE => a.data = NoneV
    /\ Headroom(a.start_address) >= 0
    /\ ~a.constant_address =>
          (a.length - 1) * (IF a.address_by_word THEN 1 ELSE 4) <= Headroom(a.start_address)

\* C25: an AxiCommand that was constructed holds the arguments it was
\* given, and they satisfy: a write has len(data) = length, a read has data
\* None, start_address <= 2^32 - 1 and, unless constant_address is set,
\* start_address + (length - 1) * stride <= 2^32 - 1 with stride 1 for word
\* and 4 for byte addressing; with arguments that break one of these the
\* construction raises.
C25_ConstructedCommandsAreWellFormed ==
    call.op = "init" =>
       /\ call.raised = NoException =>
             /\ WellFormed(call.args)
             /\ command.start_address = call.args.start_address
             /\ command.length = call.args.length
             /\ command.readorwrite = call.args.readorwrite
             /\ command.data = call.args.data
             /\ command.constant_address = call.args.constant_address
             /\ command.address_by_word = call.args.address_by_word
       /\ ~WellFormed(call.args) => (call.raised # NoException /\ command = NoCommand)

\* A byte addressed write of two words whose last beat is at 2^32 - 1 has
\* been constructed.
C25_Witness ==
    /\ call.op = "init" /\ call.raised = NoException
    /\ command.readorwrite = WRITE_TYPE /\ command.length = 2
    /\ ~command.constant_address /\ ~command.address_by_word
    /\ command.start_address = [hi |-> 65535, lo |-> 65531]

-----------------------------------------------------------------------------
(* Properties of the throttle streams (SpecStreams).                       *)

\* C26: each processor draws from its own stream, for every random_seed
\* including None: in two runs of one configuration the k-th decision of a
\* channel is the same, however many draws the other channels have made
\* before it.
C26_StreamsAreIndependent ==
    \A ch \in Channels :
       \A k \in 1..Len(rng.decisions[1][ch]) :
          k <= Len(rng.decisions[2][ch]) =>
             rng.decisions[1][ch][k] = rng.decisions[2][ch][k]

\* The same statement for a handler constructed with an integer random_seed.
C26_SeededStreamsAreIndependent == rng.random_seed # None => C26_StreamsAreIndependent

-----------------------------------------------------------------------------
(* Properties of the cycle maps of make_command_dicts (SpecDict).          *)

\* What each cycle has to carry for a list of AxiCommand / FakeWaitCommand
\* objects: a beat of a command, or nothing for a cycle of a wait.
RECURSIVE CyclesOf(_, _)
CyclesOf(axi_commands, i) ==
    IF i > Len(axi_commands) THEN <<>>
    ELSE LET ac == axi_commands[i]
         IN (IF IsFakeWait(ac)
             THEN [n \in 1..ac.clock_cycles |-> [kind |-> "idle"]]
             ELSE [n \in 1..ac.length |-> [kind |-> ac.readorwrite, ac |-> ac, beat |-> n - 1]])
            \o CyclesOf(axi_commands, i + 1)

\* The command lengths and the wait cycles, summed.
RECURSIVE TotalCycles(_, _)
TotalCycles(axi_commands, i) ==
    IF i > Len(axi_commands) THEN 0
    ELSE (IF IsFakeWait(axi_commands[i]) THEN axi_commands[i].clock_cycles
          ELSE axi_commands[i].length)
         + TotalCycles(axi_commands, i + 1)

-----------------------------------------------------------------------------
(* Properties of the two lists of the DictCommandHandler (SpecDict).       *)

\* The commands submitted so far, in submission order: those drained, then
\* those still stored.
Submitted(self) == self.sent_commands \o self.unsent_commands

\* C28: send appends the command, unresolved, to unsent_commands and
\* touches nothing else; a command's Result is UNRESOLVED as long as no
\* process_responses has run on it; make_command_dicts (get_axi_commands)
\* moves all stored commands to the end of sent_commands in submission
\* order and leaves unsent_commands empty; process_responses moves no
\* command.  So every submitted command is in exactly one of the two lists,
\* the two lists together being the submissions in order.
C28_SendStoresUnresolved ==
    /\ [](/\ \A i \in 1..Len(dict_handler.unsent_commands) :
                ~Resolved(dict_handler.unsent_commands[i].future)
          /\ \A i \in 1..Len(dict_handler.sent_commands) :
                dict_handler.n_processed[i] = 0 =>
                   ~Resolved(dict_handler.sent_commands[i].future))
    /\ [][/\ dict_call'.op = "send" =>
               /\ \E cmd \in DictSendSet :
                     dict_handler'.unsent_commands = Append(dict_handler.unsent_commands, cmd)
               /\ dict_handler'.sent_commands = dict_handler.sent_commands
          /\ dict_call'.op = "make_command_dicts" =>
               /\ dict_handler'.unsent_commands = <<>>
               /\ Submitted(dict_handler') = Submitted(dict_handler)
          /\ dict_call'.op \in {"process_responses", "consume_response_dicts"} =>
               /\ dict_handler'.unsent_commands = dict_handler.unsent_commands
               /\ Len(dict_handler'.sent_commands) = Len(dict_handler.sent_commands)
               /\ \A i \in 1..Len(dict_handler.sent_commands) :
                     dict_handler'.sent_commands[i].cls = dict_handler.sent_commands[i].cls]_vars

\* A command was sent after the stored ones were drained: one command in
\* each list, both unresolved.
C28_Witness ==
    /\ dict_call.op = "send"
    /\ Len(dict_handler.sent_commands) = 1 /\ Len(dict_handler.unsent_commands) = 1
    /\ ~Resolved(dict_handler.sent_commands[1].future)
    /\ ~Resolved(dict_handler.unsent_commands[1].future)

-----------------------------------------------------------------------------
(* Properties of the round trip of a write (SpecDict).                     *)

\* Entry i of sent_commands is a write AxiCommand that the first
\* process_responses of the handler resolved from one response per beat.
AnsweredWrite(i) ==
    /\ dict_call.op = "process_responses"
    /\ \A j \in 1..Len(dict_call.before.n_processed) : dict_call.before.n_processed[j] = 0
    /\ dict_handler.n_processed[i] = 1
    /\ dict_handler.sent_commands[i].cls = "AxiCommand"
    /\ dict_handler.sent_commands[i].readorwrite = WRITE_TYPE
    /\ Len(dict_handler.returned[i].write) = dict_handler.sent_commands[i].length
    /\ \A k \in 1..Len(dict_handler.returned[i].write) :
          dict_handler.returned[i].write[k].length = 1

\* Entry i has resolved to `data` if its responses are all OKAY; if one of
\* them is SLVERR its Result holds the bad response error and `data` was
\* returned all the same.
RoundTrip(i, data) ==
    LET own == dict_handler.returned[i].write
        after == dict_handler.sent_commands[i]
    IN /\ (\A k \in 1..Len(own) : own[k].resp = OKAY) =>
             /\ after.future.state = OKAY_STATE
             /\ after.future.result_value = ListV(data)
             /\ dict_handler.returned[i].e = NoException
             /\ dict_handler.returned[i].r = ListV(data)
       /\ (\E k \in 1..Len(own) : own[k].resp = SLVERR) =>
             /\ after.future.state = ERROR_STATE
             /\ after.future.exception_value = BadResponse
             /\ dict_handler.returned[i].e = BadResponse
             /\ dict_handler.returned[i].r = ListV(data)

\* C29 as stated: the round trip of a write command with
\* data D gives D.
C29_AsStated ==
    \A i \in 1..Len(dict_handler.sent_commands) :
       AnsweredWrite(i) => RoundTrip(i, dict_handler.sent_commands[i].data)

\* C29: a write command decomposed into beats and resolved from one
\* response per beat resolves to a list of `length` None values, the data a
\* write response carries, with no error if all responses are OKAY; if one
\* is SLVERR the Result holds the bad response error and the data returned
\* are the same list.
C29_WriteRoundTripGivesNone ==
    \A i \in 1..Len(dict_handler.sent_commands) :
       AnsweredWrite(i) =>
          RoundTrip(i, [k \in 1..dict_handler.sent_commands[i].length |-> None])

\* A write of two words, sent after another command, was answered OKAY and
\* then SLVERR.
C29_Witness ==
    /\ Len(dict_handler.sent_commands) = 2
    /\ AnsweredWrite(2)
    /\ dict_handler.sent_commands[2].data = <<1, 2>>
    /\ dict_handler.returned[2].write[1].resp = OKAY
    /\ dict_handler.returned[2].write[2].resp = SLVERR
    /\ dict_handler.sent_commands[2].future.state = ERROR_STATE
    /\ dict_handler.returned[2].r = ListV(<<None, None>>)

-----------------------------------------------------------------------------
(* Properties of the five queues of the CocotbHandler (SpecCocotb).        *)

\* What a step does to the queue of channel ch: nothing; or the processor
\* of ch, in its cycle, removes the head; or a submit_write / submit_read
\* appends at the tail (the entries the submits of this step recorded for ch).
QueueStep(ch) ==
    LET q == QueueOf(handler, ch)
        after == QueueOf(handler', ch)
        hist == HistOf(handler, ch)
        appended == SubSeq(HistOf(handler', ch), Len(hist) + 1, Len(HistOf(handler', ch)))
    IN \/ after = q
       \/ /\ Turn(ch) /\ turn' = turn + 1
          /\ q # <<>> /\ after = Tail(q)
          /\ handler'.n_submits = handler.n_submits
       \/ /\ turn' = turn
          /\ handler'.n_submits > handler.n_submits
          /\ appended # <<>>
          /\ after = q \o [k \in 1..Len(appended) |-> appended[k].item]

\* C30: every step changes each of the five queues only by an append at
\* the tail made by submit_write / submit_read or by the removal of the head
\* by the channel's own processor in its cycle; the entries behind the head
\* keep their order and content.
C30_QueuesChangeAtTheEndsOnly ==
    [][\A ch \in Channels : QueueStep(ch)]_vars

\* The processor of a channel has removed the head of a queue of two
\* payloads; the second is still queued, as are entries of other channels.
C30_Witness ==
    \E ch \in OutChannels :
       /\ last.ch = ch
       /\ Len(HistOf(handler, ch)) = 2
       /\ last.held = HistOf(handler, ch)[1].item
       /\ QueueOf(handler, ch) = <<HistOf(handler, ch)[2].item>>
       /\ handler.b_queue # <<>> \/ handler.r_queue # <<>>
-----------------------------------------------------------------------------
(* Properties of the response channels (SpecUnsolicited, SpecCocotb).      *)

\* The cycle of channel ch in which it sampled valid = 1 and drove ready = 1.
AcceptedCycle(ch) == CycleOf(ch) /\ last'.valid = 1 /\ last'.ready = 1

\* The step sets handle i, which was not set before.
NewlySet(i) == ~handler.events[i].fired /\ handler'.events[i].fired

\* C31 as stated: on each accepted response process_queue_in removes the
\* head of its queue and sets it to the values sampled in that cycle.
C31_AsStated ==
    [][\A ch \in InChannels :
          AcceptedCycle(ch) =>
             /\ QueueOf(handler, ch) # <<>>
             /\ QueueOf(handler', ch) = Tail(QueueOf(handler, ch))
             /\ NewlySet(Head(QueueOf(handler, ch)))]_vars

\* C31: on each accepted response with a handle pending, process_queue_in
\* removes exactly one handle, the head of its queue, and sets it, unset
\* until then, to (resp, data) on R and to (resp, None) on B, resp and data
\* being the values sampled in that cycle, and touches no other handle; with
\* no handle pending it raises and sets nothing.  A handle that is set never
\* changes again, and a handle is set only in an accepted cycle of B or R.
C31_HeadHandleSetOnce ==
    [][/\ \A ch \in InChannels :
             LET q == QueueOf(handler, ch)
             IN /\ (AcceptedCycle(ch) /\ q # <<>>) =>
                      /\ QueueOf(handler', ch) = Tail(q)
                      /\ NewlySet(Head(q))
                      /\ handler'.events[Head(q)].resp = last'.resp
                      /\ handler'.events[Head(q)].data = last'.data
                      /\ last'.resp \in PeerResps
                      /\ last'.data # None <=> ch = "r"
                      /\ \A i \in 1..Len(handler.events) :
                            i # Head(q) => handler'.events[i] = handler.events[i]
                /\ (AcceptedCycle(ch) /\ q = <<>>) =>
                      handler' = handler /\ last'.raised = IndexError
                /\ (CycleOf(ch) /\ ~AcceptedCycle(ch)) => handler' = handler
       /\ \A i \in 1..Len(handler.events) :
             /\ handler.events[i].fired => handler'.events[i] = handler.events[i]
             /\ NewlySet(i) => \E ch \in InChannels : AcceptedCycle(ch)]_vars

\* Two reads were submitted: the handle of the first is set to (resp, data)
\* and gone from the queue, the handle of the second is still queued and
\* unset, the response presented for it in the last cycle of R not being
\* accepted.
C31_Witness ==
    /\ Len(handler.r_hist) = 2
    /\ handler.events[handler.r_hist[1].item].fired
    /\ handler.events[handler.r_hist[1].item].data # None
    /\ handler.r_queue = <<handler.r_hist[2].item>>
    /\ ~handler.events[handler.r_hist[2].item].fired
    /\ last.ch = "r" /\ last.valid = 1 /\ last.ready = 0

-----------------------------------------------------------------------------
(* Properties of the request channels (SpecCocotb).                        *)

\* The values appended to the queue of ch and not yet accepted.
NotYetAccepted(ch) == Len(HistOf(handler, ch)) - Len(wire[ch])

\* C32 as stated: a payload waiting to be accepted is still in its queue, so
\* the queue length counts the values not yet accepted.
C32_AsStated ==
    \A ch \in OutChannels : Len(QueueOf(handler, ch)) = NotYetAccepted(ch)

\* C32: an output channel's head-of-queue value is removed from the
\* channel queue in the first cycle in which the processor, holding no
\* payload, finds the queue non-empty, accepted or not; from then on the
\* processor holds it, outside the queue, and lets go of it only in the
\* cycle in which its transfer is accepted.  The payload held is the oldest
\* value not yet accepted, the queue holds the values after it, and the
\* queue length plus the payload held counts the values not yet accepted.
C32_HeadLeavesQueueWhenTaken ==
    /\ [](\A ch \in OutChannels :
             LET n == Len(wire[ch])
                 q == QueueOf(handler, ch)
                 k == IF proc[ch].value # None THEN 1 ELSE 0
             IN /\ Len(q) + k = NotYetAccepted(ch)
                /\ k = 1 => proc[ch].value = HistOf(handler, ch)[n + 1].item
                /\ \A i \in 1..Len(q) : q[i] = HistOf(handler, ch)[n + k + i].item)
    /\ [][\A ch \in OutChannels :
             /\ (CycleOf(ch) /\ proc[ch].value = None /\ QueueOf(handler, ch) # <<>>) =>
                   /\ QueueOf(handler', ch) = Tail(QueueOf(handler, ch))
                   /\ last'.held = Head(QueueOf(handler, ch))
                   /\ proc'[ch].value = None <=> (last'.valid = 1 /\ last'.ready = 1)
             /\ (CycleOf(ch) /\ proc[ch].value # None) =>
                   QueueOf(handler', ch) = QueueOf(handler, ch)
             /\ (proc[ch].value # None /\ proc'[ch].value # proc[ch].value) =>
                   /\ CycleOf(ch) /\ last'.valid = 1 /\ last'.ready = 1
                   /\ proc'[ch].value = None
                   /\ wire'[ch] = Append(wire[ch], proc[ch].value)]_vars

\* The only value given to W is driven with valid = 1 and waits for ready:
\* it is held by the processor and the queue is empty.
C32_Witness ==
    /\ Len(handler.w_hist) = 1 /\ wire["w"] = <<>>
    /\ handler.w_queue = <<>>
    /\ proc["w"].value = handler.w_hist[1].item
    /\ signals["w"].valid = 1
    /\ last.ch = "w" /\ last.ready = 0

\* C33: in its cycle an output channel drives valid = 1 only if a value
\* appended to its queue has not yet been accepted, and the payload it
\* drives with valid = 1 is the oldest such value; with the queue empty and
\* no payload held it drives valid = 0; and the valid and payload of a
\* channel change in no step but the cycle of its own processor.
C33_ValidOnlyWithOldestPending ==
    [][\A ch \in OutChannels :
          /\ CycleOf(ch) =>
                /\ last'.valid = signals'[ch].valid
                /\ signals'[ch].valid = 1 =>
                      /\ NotYetAccepted(ch) > 0
                      /\ signals'[ch].data = HistOf(handler, ch)[Len(wire[ch]) + 1].item
                /\ (QueueOf(handler, ch) = <<>> /\ proc[ch].value = None) =>
                      signals'[ch].valid = 0
          /\ signals'[ch] # signals[ch] => CycleOf(ch)]_vars

\* Of two values given to W the first was accepted; the second is driven with
\* valid = 1 and waits; AR, with nothing queued, drives valid = 0.
C33_Witness ==
    /\ Len(handler.w_hist) = 2
    /\ wire["w"] = <<handler.w_hist[1].item>>
    /\ signals["w"] = [valid |-> 1, data |-> handler.w_hist[2].item]
    /\ proc["w"].value = handler.w_hist[2].item
    /\ handler.ar_hist = <<>> /\ signals["ar"].valid = 0
    /\ last.ch = "ar" /\ last.valid = 0

-----------------------------------------------------------------------------
(* Properties of communicate (SpecPipe).                                   *)

\* C34: a write response recorded by the handler carries the code sampled
\* on bresp in the cycle in which bvalid and bready were both 1, a read
\* response the rresp and rdata sampled in the cycle in which rvalid and
\* rready were both 1, and one is recorded exactly in such a cycle.
C34_ResponsesCarryTheirOwnCode ==
    /\ comm.appended_writes # <<>> <=> (comm.b_valid = 1 /\ comm.b_ready = 1)
    /\ comm.appended_writes # <<>> =>
          comm.appended_writes = <<AxiResponse(1, <<None>>, comm.b_resp)>>
    /\ comm.appended_reads # <<>> <=> (comm.r_valid = 1 /\ comm.r_ready = 1)
    /\ comm.appended_reads # <<>> =>
          comm.appended_reads = <<AxiResponse(1, <<comm.r_data>>, comm.r_resp)>>

-----------------------------------------------------------------------------
(* Properties of axi_dicts_to_axi_responses (SpecResponses).               *)

\* The cycles of ads in which a response was accepted on channel ch.
AcceptedMaps(ch) ==
    {i \in 1..Len(ads) :
        IF ch = "b" THEN ads[i].bvalid = 1 /\ ads[i].bready = 1
        ELSE ads[i].rvalid = 1 /\ ads[i].rready = 1}

\* The j-th cycle of a set of cycles.
NthOf(S, j) == CHOOSE i \in S : Cardinality({k \in S : k < i}) = j - 1

\* A request was driven in cycle i and not accepted.
Dropped(i) ==
    \/ ads[i].arvalid = 1 /\ ads[i].arready = 0
    \/ ads[i].awvalid = 1 /\ ads[i].awready = 0
    \/ ads[i].wvalid = 1 /\ ads[i].wready = 0

\* C35: axi_dicts_to_axi_responses fails an assertion, returning nothing,
\* if some cycle map has arvalid, awvalid or wvalid set without the matching
\* ready (it fails otherwise only on a bvalid or rvalid that is None); when
\* it returns, the read responses are, in cycle order, one response of
\* length 1 with the rdata and rresp of each cycle with rvalid and rready
\* both set, and the write responses one response of length 1 with data
\* [None] and the bresp of each cycle with bvalid and bready both set.
C35_OneResponsePerAcceptedCycle ==
    dict_call.op = "axi_dicts_to_axi_responses" =>
       /\ (\E i \in 1..Len(ads) : Dropped(i)) => dict_call.raised = AssertionError
       /\ dict_call.raised = AssertionError <=>
             \E i \in 1..Len(ads) :
                Dropped(i) \/ ads[i].bvalid = None \/ ads[i].rvalid = None
       /\ dict_call.raised = AssertionError =>
             dict_call.read = <<>> /\ dict_call.write = <<>>
       /\ dict_call.raised # AssertionError =>
             /\ dict_call.raised = NoException
             /\ Len(dict_call.read) = Cardinality(AcceptedMaps("r"))
             /\ Len(dict_call.write) = Cardinality(AcceptedMaps("b"))
             /\ \A j \in 1..Len(dict_call.read) :
                   LET d == ads[NthOf(AcceptedMaps("r"), j)]
                   IN dict_call.read[j] = [length |-> 1, data |-> <<d.rdata>>,
                                           resp |-> d.rresp]
             /\ \A j \in 1..Len(dict_call.write) :
                   LET d == ads[NthOf(AcceptedMaps("b"), j)]
                   IN dict_call.write[j] = [length |-> 1, data |-> <<None>>,
                                            resp |-> d.bresp]

\* Two cycles with a read response accepted in each, with different data
\* and codes: two read responses are returned, in cycle order.
C35_Witness ==
    /\ dict_call.op = "axi_dicts_to_axi_responses"
    /\ dict_call.raised = NoException
    /\ Len(ads) = 2
    /\ ads[1].rdata = 2 /\ ads[1].rresp = SLVERR /\ ads[2].rdata = 1
    /\ Len(dict_call.read) = 2
    /\ dict_call.read[1].data = <<2>> /\ dict_call.read[2].data = <<1>>

-----------------------------------------------------------------------------
(* Properties of the request channels of communicate (SpecPipe).           *)

\* Everything the first c send calls have queued, in order.
RECURSIVE QueuedUpTo(_)
QueuedUpTo(c) ==
    IF c = 0
    THEN [read_addresses |-> <<>>, write_addresses |-> <<>>, write_datas |-> <<>>]
    ELSE AddAxiCommands(get_axi_commands(pipe_commands[c].command), 1, QueuedUpTo(c - 1))

\* The payload driven with valid = 1 in the last cycle and not accepted in it.
InFlight(valid, ready, value) == IF valid = 1 /\ ready = 0 THEN <<value>> ELSE <<>>


\* The step is a pass of the loop of communicate.
Cycle == comm'.clk = comm.clk + 1

\* C36: once arvalid, awvalid or wvalid is driven 1 with a payload, the
\* same valid and payload are driven in every following cycle until a cycle
\* in which the matching ready was sampled 1; and on each of the three
\* channels the payloads the slave has accepted, then the payload in
\* flight, then the payloads still unsent are exactly the payloads queued by
\* the send calls, in their order: each is driven in FIFO order and accepted
\* once, none is skipped.
C36_RequestsHeldAndInOrder ==
    /\ [](LET queued == QueuedUpTo(Len(pipe_commands))
          IN /\ queued.read_addresses
                   = dut.ar_seen \o InFlight(comm.ar_valid, comm.ar_ready, comm.ar_addr)
                        \o pipe_handler.unsent_read_addresses
             /\ queued.write_addresses
                   = dut.aw_seen \o InFlight(comm.aw_valid, comm.aw_ready, comm.aw_addr)
                        \o pipe_handler.unsent_write_addresses
             /\ queued.write_datas
                   = dut.w_seen \o InFlight(comm.w_valid, comm.w_ready, comm.w_data)
                        \o pipe_handler.unsent_write_datas)
    /\ [][Cycle =>
             /\ (comm.ar_valid = 1 /\ comm.ar_ready = 0) =>
                   comm'.ar_valid = 1 /\ comm'.ar_addr = comm.ar_addr
             /\ (comm.aw_valid = 1 /\ comm.aw_ready = 0) =>
                   comm'.aw_valid = 1 /\ comm'.aw_addr = comm.aw_addr
             /\ (comm.w_valid = 1 /\ comm.w_ready = 0) =>
                   comm'.w_valid = 1 /\ comm'.w_data = comm.w_data]_vars

\* Three read addresses were queued by two commands: the first two were
\* accepted in order, the third has been driven for two cycles and is not
\* accepted yet.
C36_Witness ==
    /\ dut.ar_seen = <<0, 1>>
    /\ comm.ar_valid = 1 /\ comm.ar_addr = 2 /\ comm.ar_ready = 0
    /\ comm.clk = 4
    /\ pipe_handler.unsent_read_addresses = <<>>

\* Command c, as the caller numbers it, has an entry in sent_commands.
InSentCommands(c) ==
    \E i \in 1..Len(pipe_handler.sent_commands) : pipe_handler.sent_commands[i].command = c

\* C37: the entry communicate removes from sent_commands is the command
\* whose process_responses was just called: a command that is no longer in
\* sent_commands has been processed, a command that has been processed is
\* no longer there (unless its process_responses raised and ended
\* communicate), and no command is processed twice.
C37_RemovedIsTheOneProcessed ==
    \A c \in 1..Len(pipe_commands) :
       /\ ~InSentCommands(c) => pipe_commands[c].n_processed >= 1
       /\ (InSentCommands(c) /\ pipe_commands[c].n_processed >= 1) =>
             comm.raised # NoException
       /\ pipe_commands[c].n_processed <= 1

-----------------------------------------------------------------------------
(* Properties of a handler whose peer answers accepted requests only       *)
(* (SpecCocotb).                                                           *)

\* C38: with a peer that presents a B response only for a write whose AW
\* and W beats were both accepted and an R response only for a read whose AR
\* beat was accepted, and no more responses than such requests,
\* process_queue_in never finds its queue empty when it accepts a response:
\* every accepted cycle had a handle pending and resolved it, no processor
\* has raised, the requests accepted and not yet answered never outnumber
\* the handles pending, and on B and R the handles resolved never outnumber
\* the handles appended.
C38_HandlePendingForEveryResponse ==
    /\ \A ch \in InChannels :
          /\ proc[ch].alive
          /\ Outstanding(ch) >= 0
          /\ Outstanding(ch) <= Len(QueueOf(handler, ch))
          /\ Len(wire[ch]) + Len(QueueOf(handler, ch)) = Len(HistOf(handler, ch))
    /\ last.raised = NoException
    /\ (last.ch \in InChannels /\ last.valid = 1 /\ last.ready = 1) =>
          last.pending > 0 /\ last.event # 0

\* The response to the only write submitted was accepted: its handle was the
\* one handle pending, and the queue of B is empty now, as is the peer's
\* list of requests to answer.
C38_Witness ==
    /\ Len(handler.b_hist) = 1
    /\ last.ch = "b" /\ last.valid = 1 /\ last.ready = 1
    /\ last.pending = 1 /\ last.event = handler.b_hist[1].item
    /\ handler.b_queue = <<>>
    /\ Outstanding("b") = 0

-----------------------------------------------------------------------------
(* Progress (SpecLive).                                                    *)

\* C39: if the clock keeps running, every channel's throttle draw passes
\* again and again, the peer is ready for a presented payload in one of the
\* cycles in which it is presented and presents the response to every
\* accepted request until it is accepted, then every handle appended by
\* submit_write / submit_read is eventually set, and every send, read and
\* write call eventually ends (it returns, or raises on a bad response).
C39_EveryCallEnds ==
    /\ \A i \in 1..LiveBeats :
          (Len(handler.events) >= i)
             ~> (Len(handler.events) >= i /\ handler.events[i].fired)
    /\ \A c \in 1..LiveCalls :
          (Len(calls) >= c) ~> (Len(calls) >= c /\ calls[c].pc = "done")

\* A send of two reads has ended with both handles set, after a cycle in which
\* R presented a response while the throttle held ready at 0.
C39_Witness ==
    /\ Len(calls) = 1 /\ calls[1].kind = "send" /\ calls[1].pc = "done"
    /\ Len(calls[1].read_events) = 2
    /\ handler.events[calls[1].read_events[1]].fired
    /\ handler.events[calls[1].read_events[2]].fired
    /\ handler.r_queue = <<>>
    /\ last.ch = "r"

====
